---- MODULE Spec2Model ----
(***************************************************************************)
(* Model of the D3D12 command-buffer recorder of dawn-ray-tracing:         *)
(*   - BindGroupStateTracker (descriptor population, heap rotation and     *)
(*     root/descriptor-table binding calls), specification SpecBind;       *)
(*   - the acceleration-container build/update/copy commands of            *)
(*     CommandBuffer::RecordCommands, specification SpecAccel;             *)
(*   - the vertex and index buffer trackers and the render bundles of      *)
(*     CommandBuffer::RecordRenderPass, specification SpecRender;          *)
(*   - the command loops of RecordCommands and of the three passes,        *)
(*     specification SpecStream, and FairSpecStream for their termination; *)
(*   - the begin and the end of a render pass, native or emulated,         *)
(*     specification SpecPass;                                             *)
(* and of the Vulkan back end:                                             *)
(*   - the copy extent, the copy region and the enum translators,          *)
(*     specification SpecUtils;                                            *)
(*   - the creation of acceleration containers, specification              *)
(*     SpecContainer;                                                      *)
(* and of the D3D12 back end again:                                        *)
(*   - the vertex buffer views the tracker hands to the command list,      *)
(*     specification SpecVertex;                                           *)
(*   - the update handler run by several recording threads, specification  *)
(*     SpecThreads.                                                        *)
(***************************************************************************)
EXTENDS Integers, Sequences, FiniteSets, TLC

(***************************************************************************)
(* Bounds                                                                  *)
(***************************************************************************)
\* number of bind group indices the model uses (kMaxBindGroups in the code)
NumIndices == 2
\* number of distinct BindGroup objects
NumGroups == 3
\* largest number of view descriptors of one bind group
MaxViewCount == 2
\* largest shader-visible heap serial the model lets the allocators reach
MaxHeapSerial == 3
\* number of acceleration containers
NumContainers == 3
\* number of vertex buffer slots the model uses (kMaxVertexBuffers in the code)
MaxVertexBuffers == 6
\* render pipelines, index buffer bindings and render bundles the commands name
NumPipelines == 3
NumIndexViews == 2
NumBundles == 2
\* bundles one ExecuteBundles command names
MaxBundlesPerCommand == 2
\* commands of one command buffer
MaxCommands == 5
\* color attachments of a render pass (kMaxColorAttachments in the code)
MaxColorAttachments == 2
\* commands between BeginRenderPass and EndRenderPass
MaxBodyCommands == 3
\* width and height of a mip level of a compressed texture, in texels
MaxVirtualSize == 6
\* width and height of an uncompressed copy and of its mip level, in texels
MaxCopySize == 3
\* Vulkan acceleration containers, instances of a descriptor, and the largest
\* build scratch size the device reports
NumVkContainers == 3
MaxInstances == 2
MaxBuildSize == 2
\* render pipelines of the passes that track the vertex buffer views
NumVertexPipelines == 4
\* threads that record a command buffer each, and the containers they share
NumThreads == 2
NumSharedContainers == 2

Indices == 0 .. (NumIndices - 1)
Groups == 1 .. NumGroups
Layouts == 1 .. NumIndices
Containers == 1 .. NumContainers

VARIABLES
    \* ---- BindGroupStateTracker (and its base class) ----
    mPipelineLayout,              \* 0 = nullptr
    mBindGroupLayoutsMask,        \* set of indices
    mBindGroups,                  \* index -> group, 0 = nullptr
    mDynamicOffsets,              \* index -> dynamic offset of binding 0
    mDirtyBindGroups,
    mDirtyBindGroupsObjectChangedOrIsDynamic,
    \* ---- device-level shader-visible allocators, bind group allocations ----
    allocators,
    \* ---- the D3D12 command list, as far as binding is concerned ----
    commandList,
    \* ---- what the most recent Apply did ----
    lastApply,
    bindStatus,
    \* ---- acceleration containers ----
    mIsBuilt,
    mIsUpdated,
    mScratchMemory,
    \* ---- locals of one RecordCommands invocation ----
    recordStatus,
    lastBuildContainer,
    lastUpdateContainer,
    \* ---- what the recorded commands did ----
    scope,
    curCmd,
    history,
    \* ---- RecordRenderPass: the vertex and index buffer trackers ----
    render,                       \* the trackers and locals of the pass
    bundleIter,                   \* bundle -> position of its CommandIterator
    renderStatus,
    renderCmd,                    \* what the command consumed last did
    \* ---- RecordCommands: the command stream and the pass loops ----
    stream,                       \* iterator, pass loop, tracker context
    commandCalls,                 \* per native call, the command that emitted it
    streamCmd,                    \* what the command consumed last did
    \* ---- one render pass: begin, body, end ----
    rp,
    \* ---- the most recent call of a utility function ----
    util,
    \* ---- acceleration containers of the Vulkan back end ----
    vkContainers,
    vkCreate,
    \* ---- the vertex buffer views of the tracker and of the command list ----
    vertex,
    \* ---- containers shared by command buffers recorded on several threads ----
    shared,
    recorder

bindVars == << mPipelineLayout, mBindGroupLayoutsMask,
               mBindGroups, mDynamicOffsets, mDirtyBindGroups,
               mDirtyBindGroupsObjectChangedOrIsDynamic, allocators, commandList,
               lastApply, bindStatus >>

accelVars == << mIsBuilt, mIsUpdated, mScratchMemory, recordStatus,
                lastBuildContainer, lastUpdateContainer, scope, curCmd, history >>

renderVars == << render, bundleIter, renderStatus, renderCmd >>

streamVars == << stream, commandCalls, streamCmd >>

passVars == << rp >>

utilVars == << util >>

containerVars == << vkContainers, vkCreate >>

vertexVars == << vertex >>

threadVars == << shared, recorder >>

vars == << bindVars, accelVars, renderVars, streamVars, passVars, utilVars, containerVars, vertexVars, threadVars >>

(***************************************************************************)
(* Helpers                                                                 *)
(***************************************************************************)
SetMin(S) == CHOOSE m \in S : \A x \in S : m <= x

\* IterateBitSet visits the set bits in ascending order
RECURSIVE IterateBitSet(_)
IterateBitSet(S) ==
    IF S = {} THEN << >>
    ELSE LET m == SetMin(S) IN << m >> \o IterateBitSet(S \ {m})

(***************************************************************************)
(* Bind group layouts: descriptor counts of a group, mask of a layout      *)
(***************************************************************************)
GetCbvUavSrvDescriptorCount(g) == g % (MaxViewCount + 1)
GetSamplerDescriptorCount(g) == g % 2
GetDynamicBufferCount(g) == IF g % 3 = 2 THEN 1 ELSE 0
GetBindGroupLayoutsMask(l) == 0 .. (l - 1)

\* a shader-visible heap holds the descriptors of every index at once
ViewHeapSize == NumIndices * MaxViewCount
SamplerHeapSize == NumIndices

MaxDynamicOffset == 1

(***************************************************************************)
(* Shader-visible descriptor allocators and bind group allocations         *)
(*   allocators = [view    |-> [serial, free],                             *)
(*                 sampler |-> [serial, free],                             *)
(*                 alloc   |-> [g -> [views, samplers]]]                   *)
(* alloc[g].views is the serial of the heap the views of g were last       *)
(* allocated from, 0 when they never were.                                 *)
(***************************************************************************)
\* ShaderVisibleDescriptorAllocator::AllocateAndSwitchShaderVisibleHeap
AllocateAndSwitchShaderVisibleHeap(heap, size) ==
    [serial |-> heap.serial + 1, free |-> size]

\* BindGroup::PopulateViews: TRUE when the group has no views, when its
\* allocation is still valid in the current heap, or when the heap has room
PopulateViews(A, g) ==
    LET n == GetCbvUavSrvDescriptorCount(g) IN
    IF n = 0 \/ A.alloc[g].views = A.view.serial
    THEN [ok |-> TRUE, A |-> A]
    ELSE IF A.view.free >= n
    THEN [ok |-> TRUE,
          A |-> [A EXCEPT !.view.free = @ - n,
                          !.alloc[g].views = A.view.serial]]
    ELSE [ok |-> FALSE, A |-> A]

\* BindGroup::PopulateSamplers
PopulateSamplers(A, g) ==
    LET n == GetSamplerDescriptorCount(g) IN
    IF n = 0 \/ A.alloc[g].samplers = A.sampler.serial
    THEN [ok |-> TRUE, A |-> A]
    ELSE IF A.sampler.free >= n
    THEN [ok |-> TRUE,
          A |-> [A EXCEPT !.sampler.free = @ - n,
                          !.alloc[g].samplers = A.sampler.serial]]
    ELSE [ok |-> FALSE, A |-> A]

(***************************************************************************)
(* BindGroupStateTracker::Apply, lines 127-129: the views, then the        *)
(* samplers of one group.  pv is the outcome of PopulateViews; the result  *)
(* holds didCreateBindGroupViews and didCreateBindGroupSamplers.           *)
(***************************************************************************)
PopulateSamplersAfterViews(pv, g) ==
    LET ps == PopulateSamplers(pv.A, g) IN
    [A |-> ps.A, views |-> pv.ok, samplers |-> ps.ok]

PopulateGroup(A, g) == PopulateSamplersAfterViews(PopulateViews(A, g), g)

(***************************************************************************)
(* Apply, first loop: populate the dirty groups.                           *)
(* st = [A, views, samplers, viewsFailed, samplersFailed]; views and       *)
(* samplers are the two flags after the last iteration, viewsFailed and    *)
(* samplersFailed record that some iteration failed.                       *)
(***************************************************************************)
BreakOnFailure(didViews, didSamplers) == ~didViews /\ ~didSamplers

\* lines 128-129: both flags are assigned anew in every iteration
DirtyIteration(st, pg) ==
    [A |-> pg.A, views |-> pg.views, samplers |-> pg.samplers,
     viewsFailed |-> st.viewsFailed \/ ~pg.views,
     samplersFailed |-> st.samplersFailed \/ ~pg.samplers]

RECURSIVE PopulateDirty(_, _, _)
PopulateDirty(st, order, groups) ==
    IF order = << >> \/ BreakOnFailure(st.views, st.samplers) THEN st
    ELSE PopulateDirty(DirtyIteration(st, PopulateGroup(st.A, groups[Head(order)])),
                       Tail(order), groups)

\* lines 126-133: the indices whose group the first loop populates
RECURSIVE PopulatedByDirtyLoop(_, _, _)
PopulatedByDirtyLoop(st, order, groups) ==
    IF order = << >> \/ BreakOnFailure(st.views, st.samplers) THEN {}
    ELSE {Head(order)}
         \cup PopulatedByDirtyLoop(
                  DirtyIteration(st, PopulateGroup(st.A, groups[Head(order)])),
                  Tail(order), groups)

(***************************************************************************)
(* Apply, loop after the heap switch: populate every group of the layout.  *)
(* st = [A, asserted]; asserted records a failed ASSERT(didCreate...).     *)
(***************************************************************************)
AssertIteration(st, pg) ==
    [A |-> pg.A, asserted |-> st.asserted \/ ~pg.views \/ ~pg.samplers]

RECURSIVE PopulateAll(_, _, _)
PopulateAll(st, order, groups) ==
    IF order = << >> THEN st
    ELSE PopulateAll(AssertIteration(st, PopulateGroup(st.A, groups[Head(order)])),
                     Tail(order), groups)

(***************************************************************************)
(* BindGroupStateTracker::ApplyBindGroup: the binding calls of one group.  *)
(* A root-descriptor call carries the buffer location, a descriptor-table  *)
(* call the heap serial of the base descriptor handed to the command list. *)
(***************************************************************************)
GetVA(g) == 16 * g
BindingOffset(g) == 4

RootDescriptorCalls(index, g, dynamicOffset) ==
    IF GetDynamicBufferCount(g) # 0
    THEN << [kind |-> "RootDescriptor", index |-> index, group |-> g,
             location |-> GetVA(g) + BindingOffset(g) + dynamicOffset,
             heap |-> 0] >>
    ELSE << >>

\* the descriptor tables set whether or not the group is in mDirtyBindGroups
ApplyBindGroupAlwaysTables(index, g, dynamicOffset, dirty, alloc) ==
    RootDescriptorCalls(index, g, dynamicOffset)
    \o (IF GetCbvUavSrvDescriptorCount(g) > 0
        THEN << [kind |-> "ViewTable", index |-> index, group |-> g,
                 location |-> 0, heap |-> alloc[g].views] >>
        ELSE << >>)
    \o (IF GetSamplerDescriptorCount(g) > 0
        THEN << [kind |-> "SamplerTable", index |-> index, group |-> g,
                 location |-> 0, heap |-> alloc[g].samplers] >>
        ELSE << >>)

ApplyBindGroup(index, g, dynamicOffset, dirty, alloc) ==
    RootDescriptorCalls(index, g, dynamicOffset)
    \o (IF index \notin dirty THEN << >>
        ELSE (IF GetCbvUavSrvDescriptorCount(g) > 0
              THEN << [kind |-> "ViewTable", index |-> index, group |-> g,
                       location |-> 0, heap |-> alloc[g].views] >>
              ELSE << >>)
             \o
             (IF GetSamplerDescriptorCount(g) > 0
              THEN << [kind |-> "SamplerTable", index |-> index, group |-> g,
                       location |-> 0, heap |-> alloc[g].samplers] >>
              ELSE << >>))

RECURSIVE ApplyBindGroups(_, _, _, _, _)
ApplyBindGroups(order, groups, offsets, dirty, alloc) ==
    IF order = << >> THEN << >>
    ELSE ApplyBindGroup(Head(order), groups[Head(order)], offsets[Head(order)],
                        dirty, alloc)
         \o ApplyBindGroups(Tail(order), groups, offsets, dirty, alloc)


(***************************************************************************)
(* BindGroupStateTracker::Apply as a function of the tracker state T =     *)
(* [groups, offsets, mask, dirty, dirtyOCD], the allocators A and the      *)
(* outcomes of the environment: whether a heap switch succeeds, and        *)
(* whether a failed ASSERT stops the program (a build with assertions) or  *)
(* is not evaluated (a build without them).  p1 is the outcome of the      *)
(* first loop, sw = [views, samplers] tells which heaps were switched.     *)
(***************************************************************************)
\* a heap switch that leaves the dirty sets as they were
DirtyAfterSwitchKeepsDirty(dirty, mask) == dirty

\* lines 146-147: the groups marked dirty once a heap was switched
DirtyAfterSwitch(dirty, mask) == dirty \cup mask

\* line 137: whether the first loop asks for a heap switch
NeedsSwitch(didViews, didSamplers) == ~didViews \/ ~didSamplers

NoSwitch == [views |-> FALSE, samplers |-> FALSE]

\* an Apply that leaves both dirty sets empty however it ends
ApplyOutcomeClearingFlags(result, A, rotated, calls, dirty, dirtyOCD, p1, sw, asserted) ==
    [result |-> result, A |-> A, rotated |-> rotated,
     heaps |-> IF rotated THEN << A.view.serial, A.sampler.serial >>
               ELSE << 0, 0 >>,
     calls |-> calls, dirty |-> {}, dirtyOCD |-> {},
     viewsFailed |-> p1.viewsFailed, samplersFailed |-> p1.samplersFailed,
     switchedViews |-> sw.views, switchedSamplers |-> sw.samplers,
     asserted |-> asserted]

\* what an Apply leaves behind; heaps are the heaps SetID3D12DescriptorHeaps
\* (line 150) has set on the command list
ApplyOutcome(result, A, rotated, calls, dirty, dirtyOCD, p1, sw, asserted) ==
    [result |-> result, A |-> A, rotated |-> rotated,
     heaps |-> IF rotated THEN << A.view.serial, A.sampler.serial >>
               ELSE << 0, 0 >>,
     calls |-> calls, dirty |-> dirty, dirtyOCD |-> dirtyOCD,
     viewsFailed |-> p1.viewsFailed, samplersFailed |-> p1.samplersFailed,
     switchedViews |-> sw.views, switchedSamplers |-> sw.samplers,
     asserted |-> asserted]

\* the binding calls without DidApply: both dirty sets stay as they are
ApplyCallsWithoutDidApply(T, p1, A, sw, rotated, asserted) ==
    ApplyOutcome("ok", A, rotated,
                 ApplyBindGroups(
                     IterateBitSet(IF rotated THEN DirtyAfterSwitch(T.dirtyOCD, T.mask)
                                   ELSE T.dirtyOCD),
                     T.groups, T.offsets,
                     IF rotated THEN DirtyAfterSwitch(T.dirty, T.mask) ELSE T.dirty,
                     A.alloc),
                 T.dirty, T.dirtyOCD, p1, sw, asserted)

\* lines 162-212: the binding calls of the groups that changed, then DidApply
ApplyCalls(T, p1, A, sw, rotated, asserted) ==
    ApplyOutcome("ok", A, rotated,
                 ApplyBindGroups(
                     IterateBitSet(IF rotated THEN DirtyAfterSwitch(T.dirtyOCD, T.mask)
                                   ELSE T.dirtyOCD),
                     T.groups, T.offsets,
                     IF rotated THEN DirtyAfterSwitch(T.dirty, T.mask) ELSE T.dirty,
                     A.alloc),
                 {}, {}, p1, sw, asserted)

\* lines 157-158: the assertions on the outcome p2 of the second loop
Repopulated(T, p1, p2, sw, assertAborts) ==
    IF p2.asserted /\ assertAborts
    THEN ApplyOutcome("assert", p2.A, TRUE, << >>,
                      DirtyAfterSwitch(T.dirty, T.mask),
                      DirtyAfterSwitch(T.dirtyOCD, T.mask), p1, sw, TRUE)
    ELSE ApplyCalls(T, p1, p2.A, sw, TRUE, p2.asserted)

\* lines 146-159: after the switch every group of the layout is populated
Switched(T, p1, A1, sw, assertAborts) ==
    Repopulated(T, p1,
                PopulateAll([A |-> A1, asserted |-> FALSE],
                            IterateBitSet(T.mask), T.groups),
                sw, assertAborts)

\* lines 137-144: the heap of each kind whose flag is false is switched
SwitchHeaps(T, p1, switchViewsOk, switchSamplersOk, assertAborts) ==
    IF ~NeedsSwitch(p1.views, p1.samplers)
    THEN ApplyCalls(T, p1, p1.A, NoSwitch, FALSE, FALSE)
    ELSE IF ~p1.views /\ ~switchViewsOk
    THEN ApplyOutcome("error", p1.A, FALSE, << >>, T.dirty, T.dirtyOCD,
                      p1, NoSwitch, FALSE)
    ELSE IF ~p1.samplers /\ ~switchSamplersOk
    THEN ApplyOutcome("error",
                      [p1.A EXCEPT !.view =
                          IF ~p1.views
                          THEN AllocateAndSwitchShaderVisibleHeap(@, ViewHeapSize)
                          ELSE @],
                      FALSE, << >>, T.dirty, T.dirtyOCD,
                      p1, [views |-> ~p1.views, samplers |-> FALSE], FALSE)
    ELSE Switched(T, p1,
                  [p1.A EXCEPT
                     !.view = IF ~p1.views
                              THEN AllocateAndSwitchShaderVisibleHeap(@, ViewHeapSize)
                              ELSE @,
                     !.sampler = IF ~p1.samplers
                                 THEN AllocateAndSwitchShaderVisibleHeap(@, SamplerHeapSize)
                                 ELSE @],
                  [views |-> ~p1.views, samplers |-> ~p1.samplers],
                  assertAborts)

Apply(T, A, switchViewsOk, switchSamplersOk, assertAborts) ==
    SwitchHeaps(T,
                PopulateDirty([A |-> A, views |-> TRUE, samplers |-> TRUE,
                               viewsFailed |-> FALSE, samplersFailed |-> FALSE],
                              IterateBitSet(T.dirty), T.groups),
                switchViewsOk, switchSamplersOk, assertAborts)

\* lines 126-133 and 152-159: the indices whose group an Apply populates
PopulatedInApply(T, A, rotated) ==
    PopulatedByDirtyLoop([A |-> A, views |-> TRUE, samplers |-> TRUE,
                          viewsFailed |-> FALSE, samplersFailed |-> FALSE],
                         IterateBitSet(T.dirty), T.groups)
        \cup (IF rotated THEN T.mask ELSE {})

\* the allocators of an Apply that cannot run out of descriptors
Unexhausted(A) ==
    [A EXCEPT !.view.free = ViewHeapSize + NumIndices * MaxViewCount,
              !.sampler.free = SamplerHeapSize + NumIndices]

\* the binding calls as the shader sees them: without the heap they point into
RECURSIVE Functional(_)
Functional(calls) ==
    IF calls = << >> THEN << >>
    ELSE << [kind |-> Head(calls).kind, index |-> Head(calls).index,
             group |-> Head(calls).group, location |-> Head(calls).location] >>
         \o Functional(Tail(calls))

\* the descriptor tables of the command list after the calls of an Apply
RECURSIVE SetTables(_, _)
SetTables(tables, calls) ==
    IF calls = << >> THEN tables
    ELSE LET c == Head(calls)
             t == IF c.kind = "ViewTable"
                  THEN [tables EXCEPT ![c.index].views = c.heap]
                  ELSE IF c.kind = "SamplerTable"
                  THEN [tables EXCEPT ![c.index].samplers = c.heap]
                  ELSE tables
         IN SetTables(t, Tail(calls))

(***************************************************************************)
(* Binding tracker: initial state and commands                             *)
(***************************************************************************)
NoApply ==
    [result |-> "none", rotated |-> FALSE, calls |-> << >>, baseline |-> << >>,
     allDirty |-> << >>,
     viewsFailed |-> FALSE, samplersFailed |-> FALSE,
     switchedViews |-> FALSE, switchedSamplers |-> FALSE, asserted |-> FALSE,
     drew |-> FALSE]

BindInitCommon ==
    /\ mPipelineLayout = 0
    /\ mBindGroupLayoutsMask = {}
    /\ mBindGroups = [i \in Indices |-> 0]
    /\ mDynamicOffsets = [i \in Indices |-> 0]
    /\ mDirtyBindGroups = {}
    /\ mDirtyBindGroupsObjectChangedOrIsDynamic = {}
    /\ lastApply = NoApply
    /\ bindStatus = "recording"

\* RecordCommands starts with the heaps earlier command buffers left behind:
\* any number of descriptors of the current heaps may already be taken
BindInit ==
    /\ BindInitCommon
    /\ \E vf \in 0 .. ViewHeapSize, sf \in 0 .. SamplerHeapSize :
          allocators = [view |-> [serial |-> 1, free |-> vf],
                        sampler |-> [serial |-> 1, free |-> sf],
                        alloc |-> [g \in Groups |-> [views |-> 0, samplers |-> 0]]]
    \* line 479: SetID3D12DescriptorHeaps
    /\ commandList = [heaps |-> << 1, 1 >>,
                      tables |-> [i \in Indices |-> [views |-> 0, samplers |-> 0]]]

BindIdle ==
    /\ BindInitCommon
    /\ allocators = [view |-> [serial |-> 1, free |-> ViewHeapSize],
                     sampler |-> [serial |-> 1, free |-> SamplerHeapSize],
                     alloc |-> [g \in Groups |-> [views |-> 0, samplers |-> 0]]]
    /\ commandList = [heaps |-> << 1, 1 >>,
                      tables |-> [i \in Indices |-> [views |-> 0, samplers |-> 0]]]

\* BindGroupTrackerBase::OnSetPipeline: a change of the pipeline layout makes
\* every group of the new layout dirty
OnSetPipeline(l) ==
    /\ bindStatus = "recording"
    /\ mPipelineLayout' = l
    /\ mBindGroupLayoutsMask' = GetBindGroupLayoutsMask(l)
    /\ IF mPipelineLayout = l
       THEN UNCHANGED << mDirtyBindGroups, mDirtyBindGroupsObjectChangedOrIsDynamic >>
       ELSE /\ mDirtyBindGroups' = GetBindGroupLayoutsMask(l)
            /\ mDirtyBindGroupsObjectChangedOrIsDynamic' = GetBindGroupLayoutsMask(l)
    /\ lastApply' = NoApply
    /\ UNCHANGED << mBindGroups, mDynamicOffsets, allocators, commandList,
                    bindStatus >>

\* a SetBindGroup that marks a changed group for population only, and for
\* its binding calls only when it has dynamic buffers
OnSetBindGroupMarksPopulationOnly(index, g, dynamicOffset) ==
    /\ bindStatus = "recording"
    /\ mDirtyBindGroups' =
          IF index \in mBindGroupLayoutsMask /\ mBindGroups[index] # g
          THEN mDirtyBindGroups \cup {index}
          ELSE mDirtyBindGroups
    /\ mDirtyBindGroupsObjectChangedOrIsDynamic' =
          IF index \in mBindGroupLayoutsMask /\ GetDynamicBufferCount(g) > 0
          THEN mDirtyBindGroupsObjectChangedOrIsDynamic \cup {index}
          ELSE mDirtyBindGroupsObjectChangedOrIsDynamic
    /\ mBindGroups' = [mBindGroups EXCEPT ![index] = g]
    /\ mDynamicOffsets' = [mDynamicOffsets EXCEPT ![index] = dynamicOffset]
    /\ lastApply' = NoApply
    /\ UNCHANGED << mPipelineLayout, mBindGroupLayoutsMask, allocators,
                    commandList, bindStatus >>

\* BindGroupTrackerBase::OnSetBindGroup: only the groups the current pipeline
\* layout uses are marked dirty
OnSetBindGroup(index, g, dynamicOffset) ==
    /\ bindStatus = "recording"
    /\ mDirtyBindGroups' =
          IF index \in mBindGroupLayoutsMask /\ mBindGroups[index] # g
          THEN mDirtyBindGroups \cup {index}
          ELSE mDirtyBindGroups
    /\ mDirtyBindGroupsObjectChangedOrIsDynamic' =
          IF index \in mBindGroupLayoutsMask
             /\ (mBindGroups[index] # g \/ GetDynamicBufferCount(g) > 0)
          THEN mDirtyBindGroupsObjectChangedOrIsDynamic \cup {index}
          ELSE mDirtyBindGroupsObjectChangedOrIsDynamic
    /\ mBindGroups' = [mBindGroups EXCEPT ![index] = g]
    /\ mDynamicOffsets' = [mDynamicOffsets EXCEPT ![index] = dynamicOffset]
    /\ lastApply' = NoApply
    /\ UNCHANGED << mPipelineLayout, mBindGroupLayoutsMask, allocators,
                    commandList, bindStatus >>

SetBindGroup ==
    \E index \in Indices, g \in Groups, dynamicOffset \in 0 .. MaxDynamicOffset :
        /\ GetDynamicBufferCount(g) = 0 => dynamicOffset = 0
        /\ OnSetBindGroup(index, g, dynamicOffset)

SetPipeline == \E l \in Layouts : OnSetPipeline(l)

Tracker ==
    [groups |-> mBindGroups, offsets |-> mDynamicOffsets,
     mask |-> mBindGroupLayoutsMask, dirty |-> mDirtyBindGroups,
     dirtyOCD |-> mDirtyBindGroupsObjectChangedOrIsDynamic]

\* the outcomes of the environment that an Apply depends on, r0 being the
\* Apply in which every switch succeeds and a failed assertion aborts
Outcomes(r0) ==
    {<< TRUE, TRUE, TRUE >>}
    \cup (IF r0.switchedViews THEN {<< FALSE, TRUE, TRUE >>} ELSE {})
    \cup (IF r0.switchedSamplers THEN {<< TRUE, FALSE, TRUE >>} ELSE {})
    \cup (IF r0.asserted THEN {<< TRUE, TRUE, FALSE >>} ELSE {})

\* the state after the Apply r of a draw; b is the same Apply with heaps that
\* are not exhausted, d the same with every group of the layout dirty as well
Applied(r, b, d) ==
    /\ allocators' = r.A
    /\ mDirtyBindGroups' = r.dirty
    /\ mDirtyBindGroupsObjectChangedOrIsDynamic' = r.dirtyOCD
    /\ commandList' =
          [heaps |-> IF r.rotated THEN r.heaps ELSE commandList.heaps,
           tables |-> SetTables(commandList.tables, r.calls)]
    /\ bindStatus' = IF r.result = "ok" THEN "recording" ELSE r.result
    /\ lastApply' =
          [result |-> r.result, rotated |-> r.rotated, calls |-> r.calls,
           baseline |-> b.calls, allDirty |-> d.calls,
           viewsFailed |-> r.viewsFailed, samplersFailed |-> r.samplersFailed,
           switchedViews |-> r.switchedViews,
           switchedSamplers |-> r.switchedSamplers,
           asserted |-> r.asserted,
           drew |-> (r.result = "ok")]

\* Draw, Dispatch and TraceRays: DAWN_TRY(bindingTracker->Apply(...)), then the
\* native call.  The front end has validated that a pipeline is set and that
\* every group of its layout is bound.
Draw ==
    /\ bindStatus = "recording"
    /\ mPipelineLayout # 0
    /\ \A i \in mBindGroupLayoutsMask : mBindGroups[i] # 0
    /\ allocators.view.serial < MaxHeapSerial
    /\ allocators.sampler.serial < MaxHeapSerial
    /\ \E o \in Outcomes(Apply(Tracker, allocators, TRUE, TRUE, TRUE)) :
          Applied(Apply(Tracker, allocators, o[1], o[2], o[3]),
                  Apply(Tracker, Unexhausted(allocators), TRUE, TRUE, TRUE),
                  Apply([Tracker EXCEPT
                           !.dirty = @ \cup mBindGroupLayoutsMask,
                           !.dirtyOCD = @ \cup mBindGroupLayoutsMask],
                        Unexhausted(allocators), TRUE, TRUE, TRUE))
    /\ UNCHANGED << mPipelineLayout, mBindGroupLayoutsMask, mBindGroups,
                    mDynamicOffsets >>


(***************************************************************************)
(* Acceleration containers                                                 *)
(***************************************************************************)
GetLevel(c) == IF c % 2 = 1 THEN "Bottom" ELSE "Top"

ResultAddress(c) == 16 * c + 1
BuildAddress(c) == 16 * c + 2
UpdateAddress(c) == 16 * c + 3

\* RayTracingAccelerationContainer::GetScratchMemory of a new container
NewScratchMemory(c) ==
    [result |-> [address |-> ResultAddress(c), allocated |-> TRUE],
     build  |-> [address |-> BuildAddress(c), allocated |-> TRUE],
     update |-> [address |-> UpdateAddress(c), allocated |-> TRUE]]

\* RayTracingAccelerationContainer::DestroyScratchBuildMemory
DestroyScratchBuildMemory(memory) == [memory EXCEPT !.build.allocated = FALSE]

NoCall == [op |-> "None", update |-> FALSE, source |-> 0, dest |-> 0, scratch |-> 0]

(***************************************************************************)
(* curCmd is the command recorded last: what it emitted, whether the       *)
(* recorder accepted it, and what held when it was consumed:               *)
(*   wasBuilt, wasUpdated, wasAllocated  state of its container            *)
(*   buildRecorded    a build command had been recorded for the container  *)
(*   updatedAfter     an update had been recorded after such a build       *)
(*   followsBuild     the command before it was an accepted build of the   *)
(*                    same container; prevNative, prevBarrier are its calls*)
(*   followsRebuild   ... and the container was built before that build    *)
(*   buildLevels, updateLevels  levels of the builds and updates accepted  *)
(*                    earlier in the scope                                 *)
(***************************************************************************)
NoCmd ==
    [kind |-> "None", container |-> 0, other |-> 0, accepted |-> TRUE,
     events |-> << >>, native |-> NoCall, barrier |-> 0,
     wasBuilt |-> FALSE, wasUpdated |-> FALSE, wasAllocated |-> FALSE,
     buildRecorded |-> FALSE, updatedAfter |-> FALSE,
     followsBuild |-> FALSE, followsRebuild |-> FALSE, prevNative |-> NoCall, prevBarrier |-> 0,
     buildLevels |-> {}, updateLevels |-> {}]

NewHistory == [buildRecorded |-> FALSE, updatedAfter |-> FALSE]

NewScope == [buildLevels |-> {}, updateLevels |-> {}]

AccelInitCommon ==
    /\ mIsBuilt = [c \in Containers |-> FALSE]
    /\ mIsUpdated = [c \in Containers |-> FALSE]
    /\ mScratchMemory = [c \in Containers |-> NewScratchMemory(c)]
    /\ lastBuildContainer = 0
    /\ lastUpdateContainer = 0
    /\ scope = NewScope
    /\ curCmd = NoCmd
    /\ history = [c \in Containers |-> NewHistory]

AccelInit == AccelInitCommon /\ recordStatus = "done"

AccelIdle == AccelInitCommon /\ recordStatus = "unused"

\* CommandBuffer::RecordCommands is entered: lines 535-536
BeginRecording ==
    /\ recordStatus \in {"done", "error"}
    /\ recordStatus' = "recording"
    /\ lastBuildContainer' = 0
    /\ lastUpdateContainer' = 0
    /\ scope' = NewScope
    /\ curCmd' = [NoCmd EXCEPT !.kind = "Begin"]
    /\ UNCHANGED << mIsBuilt, mIsUpdated, mScratchMemory, history >>

\* the stream ends: line 838
EndRecording ==
    /\ recordStatus = "recording"
    /\ recordStatus' = "done"
    /\ UNCHANGED << mIsBuilt, mIsUpdated, mScratchMemory, lastBuildContainer,
                    lastUpdateContainer, scope, curCmd, history >>

\* the checks of a build command without the comparison of levels
BuildRejectedNoLevelCheck(c, lastBuild, lastUpdate) == lastUpdate # 0

\* lines 606-616: the checks of a build command
BuildRejected(c, lastBuild, lastUpdate) ==
    \/ lastUpdate # 0
    \/ (lastBuild # 0 /\ GetLevel(lastBuild) # GetLevel(c))

\* lines 672-682: the checks of an update command
UpdateRejected(c, lastBuild, lastUpdate) ==
    \/ lastBuild # 0
    \/ (lastUpdate # 0 /\ GetLevel(lastUpdate) # GetLevel(c))

\* a build descriptor that names the result memory as its source, as the
\* descriptor of an update does
BuildDescWithSource(memory) ==
    [op |-> "Build", update |-> FALSE, source |-> memory.result.address,
     dest |-> memory.result.address, scratch |-> memory.build.address]

\* lines 589-593: the native build descriptor of a build command
BuildDesc(memory) ==
    [op |-> "Build", update |-> FALSE, source |-> 0,
     dest |-> memory.result.address, scratch |-> memory.build.address]

\* an update descriptor that names the build scratch memory
UpdateDescOnBuildScratch(memory) ==
    [op |-> "Build", update |-> TRUE, source |-> memory.result.address,
     dest |-> memory.result.address, scratch |-> memory.build.address]

\* lines 652-659: the native build descriptor of an update command
UpdateDesc(memory) ==
    [op |-> "Build", update |-> TRUE, source |-> memory.result.address,
     dest |-> memory.result.address, scratch |-> memory.update.address]

\* a barrier on the build scratch buffer instead of the result buffer
BarrierOnBuildScratch(memory) == memory.build.address

\* lines 598-602 and 664-668: the resource of the UAV barrier
BarrierResource(memory) == memory.result.address

\* line 644: whether an update command releases the build scratch memory
ReleasesBuildScratch(isBuilt, isUpdated) == isBuilt /\ ~isUpdated

\* a build command that does not remember its container
LastBuildNotRecorded(c) == 0

\* line 617: lastBuildContainer after an accepted build command
LastBuildAfter(c) == c

\* line 683: lastUpdateContainer after an accepted update command
LastUpdateAfter(c) == c

\* what held when the command on container c was consumed
Consumed(kind, c) ==
    [NoCmd EXCEPT
       !.kind = kind, !.container = c,
       !.wasBuilt = mIsBuilt[c], !.wasUpdated = mIsUpdated[c],
       !.wasAllocated = mScratchMemory[c].build.allocated,
       !.buildRecorded = history[c].buildRecorded,
       !.updatedAfter = history[c].updatedAfter,
       !.followsBuild = (curCmd.kind = "Build" /\ curCmd.container = c
                         /\ curCmd.accepted /\ recordStatus = "recording"),
       !.followsRebuild = (curCmd.kind = "Build" /\ curCmd.container = c
                           /\ curCmd.accepted /\ curCmd.wasBuilt
                           /\ recordStatus = "recording"),
       !.prevNative = IF curCmd.kind = "Build" /\ curCmd.container = c
                         /\ curCmd.accepted /\ recordStatus = "recording"
                      THEN curCmd.native ELSE NoCall,
       !.prevBarrier = IF curCmd.kind = "Build" /\ curCmd.container = c
                          /\ curCmd.accepted /\ recordStatus = "recording"
                       THEN curCmd.barrier ELSE 0,
       !.buildLevels = scope.buildLevels, !.updateLevels = scope.updateLevels]

\* case Command::BuildRayTracingAccelerationContainer, lines 581-619
RecordBuild(c) ==
    LET rejected == BuildRejected(c, lastBuildContainer, lastUpdateContainer)
        desc == BuildDesc(mScratchMemory[c])
        barrier == BarrierResource(mScratchMemory[c])
    IN
    /\ recordStatus = "recording"
    /\ mIsBuilt' = [mIsBuilt EXCEPT ![c] = TRUE]
    /\ lastBuildContainer' = IF rejected THEN lastBuildContainer ELSE LastBuildAfter(c)
    /\ recordStatus' = IF rejected THEN "error" ELSE "recording"
    /\ scope' = IF rejected THEN scope
                ELSE [scope EXCEPT !.buildLevels = @ \cup {GetLevel(c)}]
    /\ curCmd' = [Consumed("Build", c) EXCEPT
                    !.accepted = ~rejected,
                    !.events = << "NativeBuild", "Barrier" >>,
                    !.native = desc, !.barrier = barrier]
    /\ history' = [history EXCEPT ![c].buildRecorded = TRUE]
    /\ UNCHANGED << mIsUpdated, mScratchMemory, lastUpdateContainer >>

\* case Command::UpdateRayTracingAccelerationContainer, lines 638-685
RecordUpdate(c) ==
    LET rejected == UpdateRejected(c, lastBuildContainer, lastUpdateContainer)
        release == ReleasesBuildScratch(mIsBuilt[c], mIsUpdated[c])
        memory == IF release THEN DestroyScratchBuildMemory(mScratchMemory[c])
                  ELSE mScratchMemory[c]
        desc == UpdateDesc(memory)
        barrier == BarrierResource(memory)
    IN
    /\ recordStatus = "recording"
    /\ mScratchMemory' = [mScratchMemory EXCEPT ![c] = memory]
    /\ mIsUpdated' = [mIsUpdated EXCEPT ![c] = IF release THEN TRUE ELSE @]
    /\ mIsBuilt' = [mIsBuilt EXCEPT ![c] = TRUE]
    /\ lastUpdateContainer' =
          IF rejected THEN lastUpdateContainer ELSE LastUpdateAfter(c)
    /\ recordStatus' = IF rejected THEN "error" ELSE "recording"
    /\ scope' = IF rejected THEN scope
                ELSE [scope EXCEPT !.updateLevels = @ \cup {GetLevel(c)}]
    /\ curCmd' = [Consumed("Update", c) EXCEPT
                    !.accepted = ~rejected,
                    !.events = (IF release THEN << "Release" >> ELSE << >>)
                               \o << "NativeUpdate", "Barrier" >>,
                    !.native = desc, !.barrier = barrier]
    /\ history' = [history EXCEPT
                    ![c].updatedAfter = @ \/ history[c].buildRecorded]
    /\ UNCHANGED << lastBuildContainer >>

\* a copy that marks its destination Built
RecordCopyMarksBuilt(src, dst) ==
    /\ recordStatus = "recording"
    /\ curCmd' = [Consumed("Copy", dst) EXCEPT
                    !.other = src,
                    !.events = << "NativeCopy" >>,
                    !.native = [op |-> "Copy", update |-> FALSE,
                                source |-> mScratchMemory[src].result.address,
                                dest |-> mScratchMemory[dst].result.address,
                                scratch |-> 0]]
    /\ mIsBuilt' = [mIsBuilt EXCEPT ![dst] = TRUE]
    /\ UNCHANGED << mIsUpdated, mScratchMemory, recordStatus,
                    lastBuildContainer, lastUpdateContainer, scope, history >>

\* case Command::CopyRayTracingAccelerationContainer, lines 621-636
RecordCopy(src, dst) ==
    /\ recordStatus = "recording"
    /\ curCmd' = [Consumed("Copy", dst) EXCEPT
                    !.other = src,
                    !.events = << "NativeCopy" >>,
                    !.native = [op |-> "Copy", update |-> FALSE,
                                source |-> mScratchMemory[src].result.address,
                                dest |-> mScratchMemory[dst].result.address,
                                scratch |-> 0]]
    /\ UNCHANGED << mIsBuilt, mIsUpdated, mScratchMemory, recordStatus,
                    lastBuildContainer, lastUpdateContainer, scope, history >>

\* cases Command::BeginComputePass, BeginRenderPass, BeginRayTracingPass,
\* lines 541-579: the pass is recorded up to its End command
RecordPass(kind) ==
    /\ recordStatus = "recording"
    /\ curCmd' = [NoCmd EXCEPT !.kind = kind,
                    !.buildLevels = scope.buildLevels,
                    !.updateLevels = scope.updateLevels]
    /\ UNCHANGED << mIsBuilt, mIsUpdated, mScratchMemory, recordStatus,
                    lastBuildContainer, lastUpdateContainer, scope, history >>

Build == \E c \in Containers : RecordBuild(c)
Update == \E c \in Containers : RecordUpdate(c)
Copy == \E src \in Containers, dst \in Containers : RecordCopy(src, dst)
Pass == \E kind \in {"ComputePass", "RenderPass", "RayTracingPass"} : RecordPass(kind)

(***************************************************************************)
(* RecordRenderPass: VertexBufferTracker, IndexBufferTracker and the       *)
(* commands EncodeRenderBundleCommand encodes.                             *)
(*                                                                         *)
(* render is the state the lambda captures by reference:                   *)
(*   mStartSlot, mEndSlot, mLastAppliedRenderPipeline   VertexBufferTracker*)
(*   indexFormat, indexLocation, mLastAppliedIndexFormat IndexBufferTracker*)
(*   lastPipeline                                        local of the pass *)
(*   bindDirty       the binding tracker holds a change Apply has not seen *)
(* and what the trackers were asked since they last emitted:               *)
(*   slotsSince      slots set since the last IASetVertexBuffers           *)
(*   indexSetSince   SetIndexBuffer recorded since the last IASetIndexBuffer*)
(*   emittedFormat, emittedLocation  the view of the last IASetIndexBuffer *)
(*   vertexApply, indexApply  what the latest Apply of each tracker saw    *)
(*                   and emitted                                           *)
(***************************************************************************)
Slots == 0 .. (MaxVertexBuffers - 1)
Pipelines == 1 .. NumPipelines
IndexViews == 1 .. NumIndexViews
Bundles == 1 .. NumBundles

SetMax(S) == CHOOSE m \in S : \A x \in S : x <= m

\* RenderPipeline::GetVertexBufferSlotsUsed
GetVertexBufferSlotsUsed(pipeline) ==
    IF pipeline % 3 = 1 THEN {0, 1, 2, 3} \cap Slots
    ELSE IF pipeline % 3 = 2 THEN {}
    ELSE {4} \cap Slots

\* DXGIIndexFormat(pipeline->GetVertexStateDescriptor()->indexFormat)
DXGIIndexFormat(pipeline) == IF pipeline % 2 = 1 THEN "R16_UINT" ELSE "R32_UINT"

Call(name, a, b) == [call |-> name, a |-> a, b |-> b]

NoVertexApply == [union |-> {}, calls |-> << >>, applied |-> FALSE]
NoIndexApply ==
    [setSince |-> FALSE, viewChanged |-> FALSE, formatChanged |-> FALSE,
     emitted |-> FALSE, applied |-> FALSE]

\* lines 1274-1277, 390-393 and 422-423: the trackers of a new pass
NewRender ==
    [mStartSlot |-> MaxVertexBuffers, mEndSlot |-> 0,
     mLastAppliedRenderPipeline |-> 0,
     indexFormat |-> "UNKNOWN", indexLocation |-> 0,
     mLastAppliedIndexFormat |-> "UNKNOWN",
     lastPipeline |-> 0, bindDirty |-> FALSE,
     slotsSince |-> {}, indexSetSince |-> FALSE,
     emittedFormat |-> "UNKNOWN", emittedLocation |-> 0,
     vertexApply |-> NoVertexApply, indexApply |-> NoIndexApply]

\* a dirty range that starts at the slots named last
StartSlotOfLastSet(start, slots) == IF slots = {} THEN start ELSE SetMin(slots)

\* lines 337 and 363: std::min over the slots
StartSlotAfter(start, slots) == SetMin({start} \cup slots)

\* lines 338 and 364: std::max over slot + 1
EndSlotAfter(end, slots) == SetMax({end} \cup {slot + 1 : slot \in slots})

\* VertexBufferTracker::OnSetVertexBuffer, lines 336-344
OnSetVertexBuffer(R, slot) ==
    [R EXCEPT !.mStartSlot = StartSlotAfter(@, {slot}),
              !.mEndSlot = EndSlotAfter(@, {slot}),
              !.slotsSince = @ \cup {slot}]

\* lines 370-382: the call for the range [startSlot, endSlot), if any
VertexRangeApplied(R, pipeline, startSlot, endSlot, union) ==
    IF endSlot <= startSlot
    THEN [R EXCEPT !.mLastAppliedRenderPipeline = pipeline,
                   !.vertexApply = [union |-> union, calls |-> << >>,
                                    applied |-> TRUE]]
    ELSE [R EXCEPT !.mLastAppliedRenderPipeline = pipeline,
                   !.mStartSlot = MaxVertexBuffers,
                   !.mEndSlot = 0,
                   !.slotsSince = {},
                   !.vertexApply =
                       [union |-> union,
                        calls |-> << Call("IASetVertexBuffers", startSlot,
                                          endSlot - startSlot) >>,
                        applied |-> TRUE]]

\* lines 359-368: the slots a change of pipeline adds to the dirty range
SlotsOfChangedPipeline(R, pipeline) ==
    IF R.mLastAppliedRenderPipeline # pipeline
    THEN GetVertexBufferSlotsUsed(pipeline)
    ELSE {}

\* VertexBufferTracker::Apply, lines 346-383
VertexBufferTrackerApply(R, pipeline) ==
    VertexRangeApplied(R, pipeline,
                       StartSlotAfter(R.mStartSlot, SlotsOfChangedPipeline(R, pipeline)),
                       EndSlotAfter(R.mEndSlot, SlotsOfChangedPipeline(R, pipeline)),
                       R.slotsSince
                       \cup (IF R.mLastAppliedRenderPipeline # pipeline
                             THEN GetVertexBufferSlotsUsed(pipeline) ELSE {}))

\* a SetIndexBuffer that leaves the applied format as it is
LastAppliedFormatKept(format) == format

\* line 404: mLastAppliedIndexFormat after OnSetIndexBuffer
LastAppliedFormatAfterSet(format) == "UNKNOWN"

\* IndexBufferTracker::OnSetIndexBuffer, lines 398-405
OnSetIndexBuffer(R, location) ==
    [R EXCEPT !.indexLocation = location,
              !.mLastAppliedIndexFormat = LastAppliedFormatAfterSet(@),
              !.indexSetSince = TRUE]

\* a SetRenderPipeline the index buffer tracker is not told of
IndexOnSetPipelineIgnored(R, pipeline) == R

\* IndexBufferTracker::OnSetPipeline, lines 407-410
IndexOnSetPipeline(R, pipeline) ==
    [R EXCEPT !.indexFormat = DXGIIndexFormat(pipeline)]

\* IndexBufferTracker::Apply, lines 412-419
IndexBufferTrackerApply(R) ==
    IF R.indexFormat = R.mLastAppliedIndexFormat
    THEN [R EXCEPT !.indexApply =
             [setSince |-> R.indexSetSince,
              viewChanged |-> R.indexLocation # R.emittedLocation,
              formatChanged |-> R.indexFormat # R.emittedFormat,
              emitted |-> FALSE, applied |-> TRUE]]
    ELSE [R EXCEPT !.mLastAppliedIndexFormat = R.indexFormat,
                   !.indexSetSince = FALSE,
                   !.emittedFormat = R.indexFormat,
                   !.emittedLocation = R.indexLocation,
                   !.indexApply =
                      [setSince |-> R.indexSetSince,
                       viewChanged |-> R.indexLocation # R.emittedLocation,
                       formatChanged |-> R.indexFormat # R.emittedFormat,
                       emitted |-> TRUE, applied |-> TRUE]]

(***************************************************************************)
(* EncodeRenderBundleCommand, lines 1279-1423, and the loop of             *)
(* RecordRenderPass, lines 1425-1497.  An encoding carries                 *)
(*   R       the trackers                                                  *)
(*   calls   the native calls emitted so far by the command                *)
(*   ok      FALSE once a DAWN_TRY has returned an error                   *)
(*   applies the number of BindGroupStateTracker::Apply invocations        *)
(*   iter    the position of each bundle's command iterator                *)
(*   pos     the position of the iterator being read                       *)
(* failAt names the invocation of Apply that returns an error (0: none).   *)
(***************************************************************************)
Cmd(type, arg) == [type |-> type, arg |-> arg]

DrawTypes == {"Draw", "DrawIndexed", "DrawIndirect", "DrawIndexedIndirect"}
IndexedTypes == {"DrawIndexed", "DrawIndexedIndirect"}

\* the slots the recorded SetVertexBuffer commands name
RecordedSlots == {2, 5} \cap Slots

EncodeCommands ==
    {Cmd(t, 0) : t \in DrawTypes \cup {"SetBindGroup"}}
        \cup {Cmd("SetRenderPipeline", p) : p \in Pipelines}
        \cup {Cmd("SetIndexBuffer", v) : v \in IndexViews}
        \cup {Cmd("SetVertexBuffer", slot) : slot \in RecordedSlots}

\* lines 1286, 1297, 1310 and 1325: the native call of a draw command
DrawCall(type) ==
    IF type = "Draw" THEN Call("DrawInstanced", 0, 0)
    ELSE IF type = "DrawIndexed" THEN Call("DrawIndexedInstanced", 0, 0)
    ELSE Call("ExecuteIndirect", type, 0)

\* DAWN_TRY(bindingTracker->Apply(commandContext)), lines 1284, 1294, 1306, 1320
BindingApplyStep(acc, failAt) ==
    IF acc.R.bindDirty /\ acc.applies + 1 = failAt
    THEN [acc EXCEPT !.ok = FALSE, !.applies = @ + 1]
    ELSE [acc EXCEPT !.R.bindDirty = FALSE,
                     !.applies = @ + 1,
                     !.calls = IF acc.R.bindDirty
                               THEN Append(@, Call("SetGraphicsRootDescriptorTable", 0, 0))
                               ELSE @]

WithIndexApplied(acc, R2) ==
    [acc EXCEPT !.R = R2,
                !.calls = IF R2.indexApply.emitted
                          THEN Append(@, Call("IASetIndexBuffer", R2.indexLocation,
                                              R2.indexFormat))
                          ELSE @]

\* indexBufferTracker.Apply(commandList), lines 1295 and 1321
IndexApplyStep(acc) == WithIndexApplied(acc, IndexBufferTrackerApply(acc.R))

WithVertexApplied(acc, R2) ==
    [acc EXCEPT !.R = R2, !.calls = @ \o R2.vertexApply.calls]

\* vertexBufferTracker.Apply(commandList, lastPipeline), lines 1285, 1296, 1307, 1322
VertexApplyStep(acc) ==
    WithVertexApplied(acc, VertexBufferTrackerApply(acc.R, acc.R.lastPipeline))

NativeStep(acc, call) == [acc EXCEPT !.calls = Append(@, call)]

\* the rest of a draw handler once Apply of the binding tracker has returned
DrawAfterApply(acc, type) ==
    IF ~acc.ok THEN acc
    ELSE NativeStep(VertexApplyStep(IF type \in IndexedTypes
                                    THEN IndexApplyStep(acc) ELSE acc),
                    DrawCall(type))

\* lines 1281-1330
EncodeDraw(acc, type, failAt) == DrawAfterApply(BindingApplyStep(acc, failAt), type)

\* lines 1371-1386
EncodeSetRenderPipeline(acc, pipeline) ==
    [acc EXCEPT !.calls = @ \o << Call("SetGraphicsRootSignature", pipeline, 0),
                                  Call("SetPipelineState", pipeline, 0),
                                  Call("IASetPrimitiveTopology", pipeline, 0) >>,
                !.R = [IndexOnSetPipeline(@, pipeline)
                          EXCEPT !.bindDirty = TRUE, !.lastPipeline = pipeline]]

\* lines 1388-1400
EncodeSetBindGroup(acc) == [acc EXCEPT !.R.bindDirty = TRUE]

\* EncodeRenderBundleCommand, lines 1279-1423
EncodeRenderBundleCommand(acc, cmd, failAt) ==
    IF cmd.type \in DrawTypes THEN EncodeDraw(acc, cmd.type, failAt)
    ELSE IF cmd.type = "SetRenderPipeline" THEN EncodeSetRenderPipeline(acc, cmd.arg)
    ELSE IF cmd.type = "SetBindGroup" THEN EncodeSetBindGroup(acc)
    ELSE IF cmd.type = "SetIndexBuffer"
    THEN [acc EXCEPT !.R = OnSetIndexBuffer(@, cmd.arg)]
    ELSE [acc EXCEPT !.R = OnSetVertexBuffer(@, cmd.arg)]

\* RenderBundleBase::GetCommands: the commands recorded in a bundle
BundleCommands(b) ==
    IF b % 2 = 1
    THEN << Cmd("SetRenderPipeline", 1), Cmd("SetVertexBuffer", 2), Cmd("Draw", 0) >>
    ELSE << Cmd("SetRenderPipeline", 2), Cmd("SetIndexBuffer", 1),
            Cmd("SetBindGroup", 0), Cmd("DrawIndexed", 0) >>

RECURSIVE RunIterator(_, _, _, _)
\* lines 1484-1486: while (iter->NextCommandId(&type)) DAWN_TRY(Encode(iter, type))
RunIterator(acc, cmds, pos, failAt) ==
    IF pos > Len(cmds) \/ ~acc.ok
    THEN [acc EXCEPT !.pos = pos]
    ELSE RunIterator(EncodeRenderBundleCommand(acc, cmds[pos], failAt),
                     cmds, pos + 1, failAt)

\* an iterator left where the last replay stopped
IterNotReset(pos) == pos

\* line 1483: iter->Reset()
IterReset(pos) == 1

StoreIter(acc, b) == [acc EXCEPT !.iter[b] = acc.pos]

\* lines 1482-1486: one bundle of the command
ExecuteBundle(acc, b, failAt) ==
    StoreIter(RunIterator(acc, BundleCommands(b), IterReset(acc.iter[b]), failAt), b)

RECURSIVE ExecuteBundles(_, _, _)
\* lines 1477-1489
ExecuteBundles(acc, bundles, failAt) ==
    IF bundles = << >> \/ ~acc.ok THEN acc
    ELSE ExecuteBundles(ExecuteBundle(acc, Head(bundles), failAt),
                        Tail(bundles), failAt)

RECURSIVE InlineCommands(_)
\* the commands of the bundles written one after the other
InlineCommands(bundles) ==
    IF bundles = << >> THEN << >>
    ELSE BundleCommands(Head(bundles)) \o InlineCommands(Tail(bundles))

\* the encoding a command starts from
Encoding(R, iter) ==
    [R |-> [R EXCEPT !.vertexApply = NoVertexApply, !.indexApply = NoIndexApply],
     calls |-> << >>, ok |-> TRUE, applies |-> 0, iter |-> iter, pos |-> 0]

NoRenderCmd ==
    [kind |-> "None", cmd |-> Cmd("None", 0), bundles |-> << >>, failAt |-> 0,
     calls |-> << >>, ok |-> TRUE]

RenderInit ==
    /\ render = NewRender
    /\ bundleIter = [b \in Bundles |-> 1]
    /\ renderStatus = "none"
    /\ renderCmd = NoRenderCmd

RenderIdle == RenderInit

\* the state after a command of the render pass
RenderAfter(kind, cmd, bundles, failAt, acc) ==
    /\ render' = acc.R
    /\ bundleIter' = acc.iter
    /\ renderStatus' = IF acc.ok THEN "recording" ELSE "error"
    /\ renderCmd' = [kind |-> kind, cmd |-> cmd, bundles |-> bundles,
                     failAt |-> failAt, calls |-> acc.calls, ok |-> acc.ok]

\* RecordRenderPass, lines 1230-1277: a pass starts with new trackers; the
\* binding tracker is the one of the command buffer
RenderBegin ==
    /\ renderStatus \in {"none", "error"}
    /\ render' = [NewRender EXCEPT !.bindDirty = render.bindDirty]
    /\ renderStatus' = "recording"
    /\ renderCmd' = [NoRenderCmd EXCEPT !.kind = "BeginRenderPass"]
    /\ UNCHANGED bundleIter

\* lines 1428-1436
RenderEnd ==
    /\ renderStatus = "recording"
    /\ renderStatus' = "none"
    /\ renderCmd' = [NoRenderCmd EXCEPT !.kind = "EndRenderPass",
                                        !.calls = << Call("EndRenderPass", 0, 0) >>]
    /\ UNCHANGED << render, bundleIter >>

\* lines 1438-1475
RenderSetDynamicState ==
    /\ renderStatus = "recording"
    /\ \E name \in {"OMSetStencilRef", "RSSetViewports", "RSSetScissorRects",
                    "OMSetBlendFactor"} :
          RenderAfter("SetDynamicState", Cmd(name, 0), << >>, 0,
                      NativeStep(Encoding(render, bundleIter), Call(name, 0, 0)))

\* what the front end has validated before a command is recorded
Recordable(R, cmd) ==
    /\ cmd.type \in DrawTypes => R.lastPipeline # 0
    /\ cmd.type \in IndexedTypes => R.indexLocation # 0

\* lines 1491-1494
RenderCommand ==
    /\ renderStatus = "recording"
    /\ \E cmd \in EncodeCommands, failAt \in 0 .. 1 :
          /\ Recordable(render, cmd)
          /\ RenderAfter("Encode", cmd, << >>, failAt,
                         EncodeRenderBundleCommand(Encoding(render, bundleIter),
                                                   cmd, failAt))

BundleLists ==
    UNION {[1 .. n -> Bundles] : n \in 1 .. MaxBundlesPerCommand}

\* lines 1477-1489
RenderExecuteBundles ==
    /\ renderStatus = "recording"
    /\ \E bundles \in BundleLists, failAt \in 0 .. MaxBundlesPerCommand :
          RenderAfter("ExecuteBundles", Cmd("ExecuteBundles", 0), bundles, failAt,
                      ExecuteBundles(Encoding(render, bundleIter), bundles, failAt))

(***************************************************************************)
(* RecordCommands, RecordComputePass, RecordRayTracingPass and             *)
(* RecordRenderPass as loops over one command stream.                      *)
(*                                                                         *)
(* stream holds                                                            *)
(*   status          idle / recording / done / error                       *)
(*   returned        what RecordCommands returned: none / ok / error       *)
(*   position        commands the iterator mCommands has handed out        *)
(*   pass            the loop that reads the iterator                      *)
(*   mInCompute, mInRayTracing   context of the BindGroupStateTracker      *)
(*   nextPassNumber  local of RecordCommands                               *)
(*   unapplied       a SetBindGroup / SetPipeline the tracker has not      *)
(*                   applied yet                                           *)
(*   pipelineSet     a pipeline was set in the current pass                *)
(*   useRenderPass   Toggle::UseD3D12RenderPass                            *)
(*   passesBegun     Begin*Pass commands consumed so far                   *)
(*   failed          a handler has returned an error                       *)
(* An event of a command is a native call or an Apply of the binding       *)
(* tracker, with the value of unapplied at the time it happens.            *)
(***************************************************************************)
TopLevelTypes ==
    {"BeginComputePass", "BeginRenderPass", "BeginRayTracingPass",
     "BuildRayTracingAccelerationContainer",
     "UpdateRayTracingAccelerationContainer",
     "CopyRayTracingAccelerationContainer",
     "CopyBufferToBuffer", "CopyBufferToTexture"}

BeginTypes == {"BeginComputePass", "BeginRenderPass", "BeginRayTracingPass"}

ComputeTypes ==
    {"Dispatch", "DispatchIndirect", "EndComputePass", "SetComputePipeline",
     "SetBindGroup"}

RayTracingTypes ==
    {"TraceRays", "EndRayTracingPass", "SetRayTracingPipeline", "SetBindGroup"}

RenderTypes ==
    DrawTypes \cup {"SetRenderPipeline", "SetBindGroup", "SetIndexBuffer",
                    "SetVertexBuffer", "EndRenderPass", "SetStencilReference",
                    "SetViewport", "SetScissorRect", "SetBlendColor"}

\* commands that need a pipeline of their pass
DrawClassTypes == DrawTypes \cup {"Dispatch", "DispatchIndirect", "TraceRays"}

\* the native calls of the draw, dispatch and trace-rays handlers
DrawClassCalls ==
    {"DrawInstanced", "DrawIndexedInstanced", "ExecuteIndirect", "Dispatch",
     "DispatchRays"}

\* a handler that makes its calls and applies the bindings afterwards
ThenApply(steps) == steps \o << "Apply" >>

\* DAWN_TRY(bindingTracker->Apply(commandContext)) and what follows it
ApplyThen(steps) == << "Apply" >> \o steps

\* the steps of the handler of a command, in the order of the code
HandlerSteps(type) ==
    IF type = "BeginComputePass"
    THEN << "PrepareResourcesForSubmission", "SetInComputePass(true)",
            "RecordComputePass" >>
    ELSE IF type = "BeginRenderPass"
    THEN << "PrepareResourcesForSubmission", "SetInComputePass(false)",
            "LazyClearRenderPassAttachments", "SetupRenderPass",
            "BeginRenderPass", "RSSetViewports", "RSSetScissorRects",
            "OMSetBlendFactor", "RecordRenderPass" >>
    ELSE IF type = "BeginRayTracingPass"
    THEN << "PrepareResourcesForSubmission", "SetInRayTracingPass(true)",
            "RecordRayTracingPass" >>
    ELSE IF type = "BuildRayTracingAccelerationContainer"
    THEN << "BuildRaytracingAccelerationStructure", "UAVBarrier", "Validate" >>
    ELSE IF type = "UpdateRayTracingAccelerationContainer"
    THEN << "BuildRaytracingAccelerationStructure", "UAVBarrier", "Validate" >>
    ELSE IF type = "CopyRayTracingAccelerationContainer"
    THEN << "CopyRaytracingAccelerationStructure", "UAVBarrier" >>
    ELSE IF type = "CopyBufferToBuffer"
    THEN << "TrackUsageAndTransitionNow", "CopyBufferRegion" >>
    ELSE IF type = "CopyBufferToTexture"
    THEN << "TrackUsageAndTransitionNow", "CopyTextureRegion" >>
    ELSE IF type = "Dispatch" THEN ApplyThen(<< "Dispatch" >>)
    ELSE IF type = "DispatchIndirect" THEN ApplyThen(<< "ExecuteIndirect" >>)
    ELSE IF type = "SetComputePipeline"
    THEN << "SetComputeRootSignature", "SetPipelineState", "OnSetPipeline" >>
    ELSE IF type = "SetBindGroup" THEN << "OnSetBindGroup" >>
    ELSE IF type = "TraceRays" THEN ApplyThen(<< "DispatchRays" >>)
    ELSE IF type = "SetRayTracingPipeline"
    THEN << "SetComputeRootSignature", "SetPipelineState1", "OnSetPipeline" >>
    ELSE IF type = "Draw"
    THEN ApplyThen(<< "VertexBufferTracker::Apply", "DrawInstanced" >>)
    ELSE IF type = "DrawIndexed"
    THEN ApplyThen(<< "IndexBufferTracker::Apply", "VertexBufferTracker::Apply",
                      "DrawIndexedInstanced" >>)
    ELSE IF type = "DrawIndirect"
    THEN ApplyThen(<< "VertexBufferTracker::Apply", "ExecuteIndirect" >>)
    ELSE IF type = "DrawIndexedIndirect"
    THEN ApplyThen(<< "IndexBufferTracker::Apply", "VertexBufferTracker::Apply",
                      "ExecuteIndirect" >>)
    ELSE IF type = "SetRenderPipeline"
    THEN << "SetGraphicsRootSignature", "SetPipelineState",
            "IASetPrimitiveTopology", "OnSetPipeline" >>
    ELSE IF type = "SetIndexBuffer" THEN << "OnSetIndexBuffer" >>
    ELSE IF type = "SetVertexBuffer" THEN << "OnSetVertexBuffer" >>
    ELSE IF type = "SetStencilReference" THEN << "OMSetStencilRef" >>
    ELSE IF type = "SetViewport" THEN << "RSSetViewports" >>
    ELSE IF type = "SetScissorRect" THEN << "RSSetScissorRects" >>
    ELSE IF type = "SetBlendColor" THEN << "OMSetBlendFactor" >>
    ELSE IF type = "EndRenderPass" THEN << "EndRenderPass", "return" >>
    ELSE << "return" >>

RECURSIVE BundleSteps(_)
\* lines 1481-1487: the handlers of the commands of the bundles
BundleSteps(cmds) ==
    IF cmds = << >> THEN << >>
    ELSE HandlerSteps(Head(cmds).type) \o BundleSteps(Tail(cmds))

\* steps that touch the vertex / index trackers or a resource only
SilentSteps ==
    {"VertexBufferTracker::Apply", "IndexBufferTracker::Apply",
     "OnSetIndexBuffer", "OnSetVertexBuffer", "LazyClearRenderPassAttachments"}

\* lines 253-320: the root calls the tracker uses
RootKind(S) == IF S.mInCompute \/ S.mInRayTracing THEN "Compute" ELSE "Graphics"

\* an event of a command: a call with a number, or with a kind
Event(step, arg, kind, unapplied) ==
    [step |-> step, arg |-> arg, kind |-> kind, unapplied |-> unapplied]

Emit(acc, step, arg) ==
    [acc EXCEPT !.events = Append(@, Event(step, arg, "none", acc.S.unapplied))]

EmitIf(acc, cond, step, arg) == IF cond THEN Emit(acc, step, arg) ELSE acc

EmitKind(acc, step, kind) ==
    [acc EXCEPT !.events = Append(@, Event(step, 0, kind, acc.S.unapplied))]

EmitKindIf(acc, cond, step, kind) == IF cond THEN EmitKind(acc, step, kind) ELSE acc

\* line 168: whether Apply transitions the storage bindings of the bound
\* groups
StorageTransitions(S) == S.mInCompute \/ S.mInRayTracing

\* DAWN_TRY(bindingTracker->Apply(commandContext)): the root calls of lines
\* 162-166, then the transitions of lines 168-206
StreamApply(acc, fails) ==
    IF fails /\ acc.S.unapplied
    THEN [acc EXCEPT !.ok = FALSE]
    ELSE EmitKindIf([EmitKind(acc, "Apply", RootKind(acc.S))
                        EXCEPT !.S.unapplied = FALSE],
                    StorageTransitions(acc.S), "TrackUsageAndTransitionNow", "Storage")

\* a usage table that is read at the same entry for every pass
PassNumberKept(n) == n

\* lines 549, 565 and 577: nextPassNumber++
PassNumberAfter(n) == n + 1

\* PrepareResourcesForSubmission, lines 482-530, for passResourceUsages[nextPassNumber]
PrepareResourcesForSubmission(acc, in) ==
    [EmitIf(EmitIf(acc, in.uninitialized, "EnsureSubresourceContentInitialized", 0),
            in.barriers, "ResourceBarrier", acc.S.nextPassNumber)
        EXCEPT !.S.passesBegun = @ + 1]

\* the call of a pass function: its loop reads the stream from here on
EnterPass(acc, pass) == [acc EXCEPT !.S.pass = pass, !.S.pipelineSet = FALSE]

\* return {} of a pass function, then nextPassNumber++ in RecordCommands
ReturnFromPass(acc) ==
    [acc EXCEPT !.S.pass = "none",
                !.S.nextPassNumber = PassNumberAfter(@)]

\* one step of a handler
StreamStep(acc, step, in) ==
    IF step = "Apply" THEN StreamApply(acc, in.fails)
    ELSE IF step \in {"Validate", "SetupRenderPass"}
    THEN [acc EXCEPT !.ok = ~in.fails]
    ELSE IF step = "PrepareResourcesForSubmission"
    THEN PrepareResourcesForSubmission(acc, in)
    ELSE IF step = "SetInComputePass(true)" THEN [acc EXCEPT !.S.mInCompute = TRUE]
    ELSE IF step = "SetInComputePass(false)" THEN [acc EXCEPT !.S.mInCompute = FALSE]
    ELSE IF step = "SetInRayTracingPass(true)"
    THEN [acc EXCEPT !.S.mInRayTracing = TRUE]
    ELSE IF step = "RecordComputePass" THEN EnterPass(acc, "compute")
    ELSE IF step = "RecordRenderPass" THEN EnterPass(acc, "render")
    ELSE IF step = "RecordRayTracingPass" THEN EnterPass(acc, "raytracing")
    ELSE IF step = "return" THEN ReturnFromPass(acc)
    ELSE IF step = "OnSetPipeline"
    THEN [acc EXCEPT !.S.unapplied = TRUE, !.S.pipelineSet = TRUE]
    ELSE IF step = "OnSetBindGroup" THEN [acc EXCEPT !.S.unapplied = TRUE]
    ELSE IF step \in SilentSteps THEN acc
    ELSE IF step = "TrackUsageAndTransitionNow"
    THEN EmitKindIf(acc, in.barriers, "ResourceBarrier", "transition")
    ELSE IF step = "UAVBarrier" THEN EmitKind(acc, "ResourceBarrier", "uav")
    ELSE IF step = "BeginRenderPass"
    THEN Emit(acc, IF acc.S.useRenderPass THEN "BeginRenderPass"
                   ELSE "OMSetRenderTargets", 0)
    ELSE IF step = "EndRenderPass"
    THEN EmitIf(acc, acc.S.useRenderPass, "EndRenderPass", 0)
    ELSE Emit(acc, step, 0)

RECURSIVE RunSteps(_, _, _)
\* the steps of a handler up to its end or to the first DAWN_TRY that fails
RunSteps(acc, steps, in) ==
    IF steps = << >> \/ ~acc.ok THEN acc
    ELSE RunSteps(StreamStep(acc, Head(steps), in), Tail(steps), in)

Inputs == [fails : BOOLEAN, barriers : BOOLEAN, uninitialized : BOOLEAN]

NativeCalls(events) == SelectSeq(events, LAMBDA e : e.step # "Apply")

\* an error that the caller drops
DawnTryIgnored(ok) == "recording"

\* DAWN_TRY in the loops: the function returns the error of the handler
DawnTry(ok) == IF ok THEN "recording" ELSE "error"

\* an iterator that hands out the same command again
NextCommandIdAgain(position) == position

\* mCommands.NextCommandId, NextCommand and NextData of one command
NextCommandId(position) == position + 1

NewStream(useRenderPass) ==
    [status |-> "idle", returned |-> "none", position |-> 0, pass |-> "none",
     mInCompute |-> FALSE, mInRayTracing |-> FALSE, nextPassNumber |-> 0,
     unapplied |-> FALSE, pipelineSet |-> FALSE,
     useRenderPass |-> useRenderPass, passesBegun |-> 0, failed |-> FALSE]

NoStreamCmd == [type |-> "None", index |-> 0, events |-> << >>, ok |-> TRUE]

StreamInitCommon ==
    /\ commandCalls = << >>
    /\ streamCmd = NoStreamCmd

StreamInit ==
    /\ \E useRenderPass \in BOOLEAN : stream = NewStream(useRenderPass)
    /\ StreamInitCommon

StreamIdle ==
    /\ stream = NewStream(FALSE)
    /\ StreamInitCommon

\* the state after the handler of a command
StreamAfter(type, acc, index) ==
    /\ stream' = [acc.S EXCEPT !.position = index,
                               !.status = DawnTry(acc.ok),
                               !.returned = IF acc.ok THEN "none" ELSE "error",
                               !.failed = ~acc.ok]
    /\ commandCalls' = commandCalls
                          \o [k \in 1 .. Len(NativeCalls(acc.events)) |-> index]
    /\ streamCmd' = [type |-> type, index |-> index, events |-> acc.events,
                     ok |-> acc.ok]

\* what the front end has validated before a command is recorded
StreamRecordable(S, type) == type \in DrawClassTypes => S.pipelineSet

\* one command read by the loop of the given pass
StreamCommand(pass, types) ==
    /\ stream.status = "recording"
    /\ stream.pass = pass
    /\ stream.position < MaxCommands
    /\ \E type \in types, in \in Inputs :
          /\ StreamRecordable(stream, type)
          /\ StreamAfter(type,
                         RunSteps([S |-> stream, events |-> << >>, ok |-> TRUE],
                                  HandlerSteps(type), in),
                         NextCommandId(stream.position))

\* CommandBuffer::RecordCommands is entered for a command buffer
StreamBegin ==
    /\ stream.status \in {"idle", "done", "error"}
    /\ stream' = [NewStream(stream.useRenderPass) EXCEPT !.status = "recording"]
    /\ commandCalls' = << >>
    /\ streamCmd' = NoStreamCmd

\* line 838: the stream is exhausted
StreamEnd ==
    /\ stream.status = "recording"
    /\ stream.pass = "none"
    /\ stream' = [stream EXCEPT !.status = "done", !.returned = "ok"]
    /\ streamCmd' = NoStreamCmd
    /\ UNCHANGED commandCalls

\* lines 949, 1082 and 1497, then 838: the stream is exhausted inside a pass;
\* the loop of the pass ends, the pass function returns, and so does the loop
\* of RecordCommands
StreamEndInPass ==
    /\ stream.status = "recording"
    /\ stream.pass # "none"
    /\ stream' = [ReturnFromPass([S |-> stream, events |-> << >>, ok |-> TRUE]).S
                     EXCEPT !.status = "done", !.returned = "ok"]
    /\ streamCmd' = NoStreamCmd
    /\ UNCHANGED commandCalls

\* lines 539-838
TopLevelCommand == StreamCommand("none", TopLevelTypes)

\* lines 846-948
ComputePassCommand == StreamCommand("compute", ComputeTypes)

\* lines 960-1080
RayTracingPassCommand == StreamCommand("raytracing", RayTracingTypes)

\* lines 1425-1475 and 1491-1494
RenderPassCommand == StreamCommand("render", RenderTypes)

\* lines 1477-1489
RenderPassExecuteBundles ==
    /\ stream.status = "recording"
    /\ stream.pass = "render"
    /\ stream.position < MaxCommands
    /\ \E bundles \in BundleLists, in \in Inputs :
          StreamAfter("ExecuteBundles",
                      RunSteps([S |-> stream, events |-> << >>, ok |-> TRUE],
                               BundleSteps(InlineCommands(bundles)), in),
                      NextCommandId(stream.position))

(***************************************************************************)
(* One render pass from BeginRenderPass to EndRenderPass: SetupRenderPass, *)
(* the native render pass or EmulateBeginRenderPass, the default dynamic   *)
(* state, the commands of the body and ResolveMultisampledRenderPass.      *)
(*                                                                         *)
(* rp holds                                                                *)
(*   status         none / body / ended / error                            *)
(*   cmd            the BeginRenderPassCmd, with the load ops the recorder *)
(*                  reads in SetupRenderPass                               *)
(*   useRenderPass  Toggle::UseD3D12RenderPass                             *)
(*   transitions    the usages of the pass need a state transition         *)
(*   body           the commands of the body consumed so far               *)
(*   pipelineSet, groupSet, groupDirty   pipeline and bind group 0 of the  *)
(*                  body, and whether the tracker has to apply group 0     *)
(*   calls          the native calls emitted for the command buffer        *)
(*   beginLen       the number of calls emitted when the body starts       *)
(*   bodyLen        the number of calls emitted when EndRenderPass is read *)
(***************************************************************************)
\* the color attachments of a pass: load op and whether a resolve target is set
ColorAttachmentLists ==
    UNION {[1 .. n -> [loadOp : {"Clear", "Load"}, resolveTarget : BOOLEAN]] :
               n \in 0 .. MaxColorAttachments}

\* the BeginRenderPassCmd records the front end accepts: a resolve target
\* needs a multisampled attachment, load ops of a missing depth-stencil
\* attachment are not read
BeginRenderPassCmds ==
    {c \in [colors : ColorAttachmentLists, sampleCount : {1, 4},
            depthStencil : {"none", "depth", "depthStencil"},
            depthLoadOp : {"Clear", "Load"}, stencilLoadOp : {"Clear", "Load"}] :
        /\ c.sampleCount = 1 =>
              \A i \in DOMAIN c.colors : ~c.colors[i].resolveTarget
        /\ c.depthStencil = "none" =>
              (c.depthLoadOp = "Load" /\ c.stencilLoadOp = "Load")}

\* view->GetTexture()->GetFormat().HasDepth() / HasStencil(), lines 1146-1147
FormatHasDepth(cmd) == cmd.depthStencil \in {"depth", "depthStencil"}
FormatHasStencil(cmd) == cmd.depthStencil = "depthStencil"

\* RenderPassBuilder::HasDepth
HasDepth(cmd) == cmd.depthStencil # "none" /\ FormatHasDepth(cmd)

\* lines 1150-1156: SetDepthAccess or SetDepthNoAccess
DepthBeginningAccess(cmd) ==
    IF cmd.depthStencil # "none" /\ FormatHasDepth(cmd)
    THEN cmd.depthLoadOp ELSE "NoAccess"

\* lines 1158-1164: SetStencilAccess or SetStencilNoAccess
StencilBeginningAccess(cmd) ==
    IF cmd.depthStencil # "none" /\ FormatHasStencil(cmd)
    THEN cmd.stencilLoadOp ELSE "NoAccess"

\* a beginning access that is taken for a clear whatever the load op
BeginningAccessAlwaysClear(access) == TRUE

\* BeginningAccess.Type == D3D12_RENDER_PASS_BEGINNING_ACCESS_TYPE_CLEAR
BeginningAccessIsClear(access) == access = "Clear"

\* lines 1179-1189: the color clears, in the order of the attachments
ColorClearCalls(cmd) ==
    SelectSeq([i \in DOMAIN cmd.colors |-> Call("ClearRenderTargetView", i - 1, 0)],
              LAMBDA c : BeginningAccessIsClear(cmd.colors[c.a + 1].loadOp))

\* lines 1192-1209: clearFlags
ClearFlags(cmd) ==
    (IF BeginningAccessIsClear(DepthBeginningAccess(cmd)) THEN {"DEPTH"} ELSE {})
        \cup (IF BeginningAccessIsClear(StencilBeginningAccess(cmd))
              THEN {"STENCIL"} ELSE {})

\* lines 1191-1217
DepthStencilClearCalls(cmd) ==
    IF HasDepth(cmd) /\ ClearFlags(cmd) # {}
    THEN << Call("ClearDepthStencilView", ClearFlags(cmd), 0) >>
    ELSE << >>

\* CommandBuffer::EmulateBeginRenderPass, lines 1173-1228
EmulateBeginRenderPass(cmd) ==
    ColorClearCalls(cmd) \o DepthStencilClearCalls(cmd)
        \o << Call("OMSetRenderTargets", Len(cmd.colors), IF HasDepth(cmd) THEN 1 ELSE 0) >>

\* SetupRenderPass, lines 1085-1170: the transitions of the resolve targets
SetupRenderPass(cmd, transitions) ==
    SelectSeq([i \in DOMAIN cmd.colors |-> Call("ResourceBarrier", "RESOLVE_DEST", i - 1)],
              LAMBDA c : transitions /\ cmd.colors[c.b + 1].resolveTarget)

RECURSIVE ResolveCalls(_, _)
\* lines 430-456: the attachments of the mask in ascending order
ResolveCalls(cmd, i) ==
    IF i > Len(cmd.colors) THEN << >>
    ELSE (IF cmd.colors[i].resolveTarget
          THEN << Call("ResourceBarrier", "RESOLVE_SOURCE", i - 1),
                  Call("ResolveSubresource", i - 1, 0) >>
          ELSE << >>) \o ResolveCalls(cmd, i + 1)

\* ResolveMultisampledRenderPass, lines 426-458
ResolveMultisampledRenderPass(cmd) == ResolveCalls(cmd, 1)

\* lines 1246-1256
BeginCalls(cmd, useRenderPass) ==
    IF useRenderPass
    THEN << Call("BeginRenderPass", Len(cmd.colors), IF HasDepth(cmd) THEN 1 ELSE 0) >>
    ELSE EmulateBeginRenderPass(cmd)

\* lines 1261-1272: the default dynamic state
DefaultDynamicState ==
    << Call("RSSetViewports", 0, 0), Call("RSSetScissorRects", 0, 0),
       Call("OMSetBlendFactor", 0, 0) >>

\* lines 1430-1434
EndCalls(cmd, useRenderPass) ==
    IF useRenderPass THEN << Call("EndRenderPass", 0, 0) >>
    ELSE IF cmd.sampleCount > 1 THEN ResolveMultisampledRenderPass(cmd)
    ELSE << >>

\* lines 482-530, for the usages of the render pass
PassPrepareCalls(transitions, uninitialized) ==
    (IF uninitialized
     THEN << Call("EnsureSubresourceContentInitialized", 0, 0) >> ELSE << >>)
        \o (IF transitions THEN << Call("ResourceBarrier", "usages", 0) >> ELSE << >>)

\* the arguments of a draw in another order
DrawInstancedArgsSwapped(draw) ==
    << draw.instanceCount, draw.vertexCount, draw.firstVertex, draw.firstInstance >>

\* lines 1286-1287: the arguments of DrawInstanced
DrawInstancedArgs(draw) ==
    << draw.vertexCount, draw.instanceCount, draw.firstVertex, draw.firstInstance >>

DrawCmds ==
    [vertexCount : {3, 6}, instanceCount : {1}, firstVertex : {0},
     firstInstance : {0}]

NoDraw ==
    [vertexCount |-> 0, instanceCount |-> 0, firstVertex |-> 0,
     firstInstance |-> 0]

BodyCmd(type, draw) == [type |-> type, draw |-> draw]

NewPass ==
    [status |-> "none",
     cmd |-> [colors |-> << >>, sampleCount |-> 1, depthStencil |-> "none",
              depthLoadOp |-> "Load", stencilLoadOp |-> "Load"],
     useRenderPass |-> FALSE, transitions |-> FALSE, body |-> << >>,
     pipelineSet |-> FALSE, groupSet |-> FALSE, groupDirty |-> FALSE,
     calls |-> << >>, beginLen |-> 0, bodyLen |-> 0]

PassInit == rp = NewPass

\* lines 553-567 and 1230-1277 when SetupRenderPass fails
PassBeginFailed(cmd, prepared) ==
    [NewPass EXCEPT !.status = "error", !.cmd = cmd, !.calls = prepared]

\* lines 553-567 and 1230-1277
PassBegun(cmd, useRenderPass, transitions, calls) ==
    [NewPass EXCEPT !.status = "body", !.cmd = cmd,
                    !.useRenderPass = useRenderPass,
                    !.transitions = transitions,
                    !.calls = calls, !.beginLen = Len(calls)]

\* case Command::BeginRenderPass, the first command of a command buffer
PassBegin ==
    /\ rp.status = "none"
    /\ \E cmd \in BeginRenderPassCmds, useRenderPass \in BOOLEAN,
          transitions \in BOOLEAN, uninitialized \in BOOLEAN, fails \in BOOLEAN :
          rp' = IF fails
                THEN PassBeginFailed(cmd, PassPrepareCalls(transitions, uninitialized))
                ELSE PassBegun(cmd, useRenderPass, transitions,
                               PassPrepareCalls(transitions, uninitialized)
                                   \o SetupRenderPass(cmd, transitions)
                                   \o BeginCalls(cmd, useRenderPass)
                                   \o DefaultDynamicState)

\* lines 1371-1386
PassSetRenderPipeline ==
    /\ rp.status = "body"
    /\ Len(rp.body) < MaxBodyCommands
    /\ rp' = [rp EXCEPT !.body = Append(@, BodyCmd("SetRenderPipeline", NoDraw)),
                        !.pipelineSet = TRUE,
                        !.groupDirty = TRUE,
                        !.calls = @ \o << Call("SetGraphicsRootSignature", 0, 0),
                                          Call("SetPipelineState", 0, 0),
                                          Call("IASetPrimitiveTopology", 0, 0) >>]

\* lines 1388-1400, for group index 0
PassSetBindGroup ==
    /\ rp.status = "body"
    /\ Len(rp.body) < MaxBodyCommands
    /\ rp' = [rp EXCEPT !.body = Append(@, BodyCmd("SetBindGroup", NoDraw)),
                        !.groupSet = TRUE,
                        !.groupDirty = TRUE]

\* lines 1281-1289; the pipeline uses no vertex buffer
PassDraw ==
    /\ rp.status = "body"
    /\ Len(rp.body) < MaxBodyCommands
    /\ rp.pipelineSet
    /\ rp.groupSet
    /\ \E draw \in DrawCmds, fails \in BOOLEAN :
          rp' = IF fails /\ rp.groupDirty
                THEN [rp EXCEPT !.status = "error",
                                !.body = Append(@, BodyCmd("Draw", draw))]
                ELSE [rp EXCEPT !.body = Append(@, BodyCmd("Draw", draw)),
                                !.groupDirty = FALSE,
                                !.calls =
                                    @ \o (IF rp.groupDirty
                                          THEN << Call("SetGraphicsRootDescriptorTable",
                                                       0, 0) >>
                                          ELSE << >>)
                                      \o << Call("DrawInstanced",
                                                 DrawInstancedArgs(draw), 0) >>]

\* lines 1428-1436
PassEnd ==
    /\ rp.status = "body"
    /\ rp' = [rp EXCEPT !.status = "ended",
                        !.bodyLen = Len(rp.calls),
                        !.calls = @ \o EndCalls(rp.cmd, rp.useRenderPass)]

(***************************************************************************)
(* The utility functions of the Vulkan and D3D12 back ends: the copy      *)
(* extent and the buffer-image copy region, and the enum translators.     *)
(*                                                                         *)
(* util holds the most recent call: the function, its arguments and what  *)
(* it returned.  A failed ASSERT or a reached UNREACHABLE is the result   *)
(* with fatal = TRUE.                                                      *)
(***************************************************************************)
\* Format: isCompressed, blockWidth, blockHeight, blockByteSize of an
\* uncompressed four byte format and of a block compressed format
Formats ==
    {[isCompressed |-> FALSE, blockWidth |-> 1, blockHeight |-> 1, blockByteSize |-> 4],
     [isCompressed |-> TRUE, blockWidth |-> 4, blockHeight |-> 4, blockByteSize |-> 8]}

\* the physical size of a mip level: the virtual size padded to whole blocks
PhysicalSize(virtual, block) == ((virtual + block - 1) \div block) * block

\* origins and sizes of a copy along one axis: whole blocks for a compressed
\* format, within the physical size, a copy of no block included; for an
\* uncompressed format also extents beyond the size of the level, which only
\* a faulty validation lets through
AxisCopies(isCompressed, block, virtual) ==
    IF isCompressed
    THEN {c \in [origin : {0, block, 2 * block}, size : {0, block, 2 * block}] :
              c.origin + c.size <= PhysicalSize(virtual, block)}
    ELSE [origin : 0 .. 1, size : 0 .. MaxCopySize]

\* the TextureCopy records of one format, with the virtual size of the mip
\* level and the copy size
TextureCopiesOf(f, sizes) ==
    UNION {
        {[format |-> f, virtualWidth |-> vw, virtualHeight |-> vh,
          x |-> cx.origin, y |-> cy.origin, width |-> cx.size, height |-> cy.size,
          depth |-> 1] :
            cx \in AxisCopies(f.isCompressed, f.blockWidth, vw),
            cy \in AxisCopies(f.isCompressed, f.blockHeight, vh)} :
        vw \in sizes, vh \in {1, SetMax(sizes)}}

TextureCopies ==
    UNION {TextureCopiesOf(f, 1 .. (IF f.isCompressed THEN MaxVirtualSize
                                    ELSE MaxCopySize)) : f \in Formats}

\* the extent clamped to the size of the level, with the origin forgotten
ClampedToVirtualSize(virtual, origin) == virtual

\* lines 200 and 204: virtualSizeAtLevel.width - textureCopy.origin.x, a
\* subtraction of uint32_t values.  A uint32_t is held as the 32-bit integer
\* with the same bits, so a difference below zero stands for the value
\* 2^32 + virtual - origin the subtraction wraps around to.
ClampedExtent(virtual, origin) == virtual - origin

\* lines 198 and 202
ExceedsVirtualSize(origin, size, virtual) == origin + size > virtual

\* ComputeTextureCopyExtent, lines 194-208
ComputeTextureCopyExtent(t) ==
    IF /\ \/ ExceedsVirtualSize(t.x, t.width, t.virtualWidth)
          \/ ExceedsVirtualSize(t.y, t.height, t.virtualHeight)
       /\ ~t.format.isCompressed
    THEN [fatal |-> TRUE, width |-> 0, height |-> 0, depth |-> 0]
    ELSE [fatal |-> FALSE,
          width |-> IF ExceedsVirtualSize(t.x, t.width, t.virtualWidth)
                    THEN ClampedExtent(t.virtualWidth, t.x) ELSE t.width,
          height |-> IF ExceedsVirtualSize(t.y, t.height, t.virtualHeight)
                     THEN ClampedExtent(t.virtualHeight, t.y) ELSE t.height,
          depth |-> t.depth]

\* the byte stride of a row: multiples of 256 as the front end requires, and
\* one that is no multiple of the block size of either format
BufferCopies ==
    [offset : {0, 512}, bytesPerRow : {256, 512, 258}, rowsPerImage : {0, 8}]

\* the row length in blocks instead of texels
BufferRowLengthInBlocks(bufferCopy, format) ==
    bufferCopy.bytesPerRow \div format.blockByteSize

\* line 221
BufferRowLength(bufferCopy, format) ==
    (bufferCopy.bytesPerRow \div format.blockByteSize) * format.blockWidth

\* ComputeBufferImageCopyRegion, lines 210-239
ComputeBufferImageCopyRegion(b, t, extent) ==
    IF b.bytesPerRow % t.format.blockByteSize # 0 \/ extent.fatal
    THEN [fatal |-> TRUE, bufferOffset |-> 0, bufferRowLength |-> 0,
          bufferImageHeight |-> 0, imageOffset |-> << 0, 0, 0 >>,
          imageExtent |-> << 0, 0, 0 >>]
    ELSE [fatal |-> FALSE, bufferOffset |-> b.offset,
          bufferRowLength |-> BufferRowLength(b, t.format),
          bufferImageHeight |-> b.rowsPerImage,
          imageOffset |-> << t.x, t.y, 0 >>,
          imageExtent |-> << extent.width, extent.height, t.depth >>]

\* a value no case of a translator names
Unrecognized == "unrecognized"

CompareFunctions ==
    {"Never", "Less", "LessEqual", "Greater", "GreaterEqual", "Equal",
     "NotEqual", "Always"}
GeometryTypes == {"Triangles", "Aabbs"}
IndexFormats == {"None", "Uint16", "Uint32"}
VertexFormats == {"Float2", "Float3"}
ContainerLevels == {"Bottom", "Top"}
GroupTypes == {"General", "TrianglesHitGroup", "ProceduralHitGroup"}

\* UNREACHABLE()
Unreachable == [fatal |-> TRUE, native |-> "none"]

Native(value) == [fatal |-> FALSE, native |-> value]

\* the body of a switch over the cases of an enum with default: UNREACHABLE()
Switch(value, cases, prefix) ==
    IF value \in cases THEN Native(<< prefix, value >>) ELSE Unreachable

\* part_000, lines 27-48
ToVulkanCompareOp(op) == Switch(op, CompareFunctions, "VK_COMPARE_OP")
\* part_000, lines 50-59
ToVulkanGeometryType(type) == Switch(type, GeometryTypes, "VK_GEOMETRY_TYPE")
\* part_000, lines 61-72
ToVulkanAccelerationContainerIndexFormat(format) ==
    Switch(format, IndexFormats, "VK_INDEX_TYPE")
\* part_000, lines 74-83
ToVulkanAccelerationContainerVertexFormat(format) ==
    Switch(format, VertexFormats, "VK_FORMAT")
\* part_000, lines 85-95
ToVulkanAccelerationContainerLevel(level) ==
    Switch(level, ContainerLevels, "VK_ACCELERATION_STRUCTURE_TYPE_KHR")
\* part_000, lines 97-109
ToVulkanShaderBindingTableGroupType(type) ==
    Switch(type, GroupTypes, "VK_RAY_TRACING_SHADER_GROUP_TYPE")
\* part_002, lines 21-42
ToD3D12ComparisonFunc(func) == Switch(func, CompareFunctions, "D3D12_COMPARISON_FUNC")
\* part_002, lines 44-54
ToD3D12RayTracingAccelerationContainerLevel(level) ==
    Switch(level, ContainerLevels, "D3D12_RAYTRACING_ACCELERATION_STRUCTURE_TYPE")
\* part_002, lines 56-66
ToD3D12RayTracingGeometryType(type) ==
    Switch(type, GeometryTypes, "D3D12_RAYTRACING_GEOMETRY_TYPE")

\* VulkanInfo.h, lines 168-177: two tests and no default case; a level that
\* is neither Bottom nor Top leaves static_cast<VkAccelerationStructureTypeNV>(0)
VulkanAccelerationContainerLevel(level) ==
    IF level = "Top" THEN Native(<< "VK_ACCELERATION_STRUCTURE_TYPE_NV", "Top" >>)
    ELSE IF level = "Bottom"
    THEN Native(<< "VK_ACCELERATION_STRUCTURE_TYPE_NV", "Bottom" >>)
    ELSE Native(<< "VK_ACCELERATION_STRUCTURE_TYPE_NV", "0" >>)

Translators ==
    {"ToVulkanCompareOp", "ToVulkanGeometryType",
     "ToVulkanAccelerationContainerIndexFormat",
     "ToVulkanAccelerationContainerVertexFormat",
     "ToVulkanAccelerationContainerLevel",
     "ToVulkanShaderBindingTableGroupType", "ToD3D12ComparisonFunc",
     "ToD3D12RayTracingAccelerationContainerLevel",
     "ToD3D12RayTracingGeometryType", "VulkanAccelerationContainerLevel"}

\* the declared values of the enum a translator takes
DeclaredValues(fn) ==
    IF fn \in {"ToVulkanCompareOp", "ToD3D12ComparisonFunc"} THEN CompareFunctions
    ELSE IF fn \in {"ToVulkanGeometryType", "ToD3D12RayTracingGeometryType"}
    THEN GeometryTypes
    ELSE IF fn = "ToVulkanAccelerationContainerIndexFormat" THEN IndexFormats
    ELSE IF fn = "ToVulkanAccelerationContainerVertexFormat" THEN VertexFormats
    ELSE IF fn = "ToVulkanShaderBindingTableGroupType" THEN GroupTypes
    ELSE ContainerLevels

\* the call of a translator
Translate(fn, value) ==
    IF fn = "ToVulkanCompareOp" THEN ToVulkanCompareOp(value)
    ELSE IF fn = "ToVulkanGeometryType" THEN ToVulkanGeometryType(value)
    ELSE IF fn = "ToVulkanAccelerationContainerIndexFormat"
    THEN ToVulkanAccelerationContainerIndexFormat(value)
    ELSE IF fn = "ToVulkanAccelerationContainerVertexFormat"
    THEN ToVulkanAccelerationContainerVertexFormat(value)
    ELSE IF fn = "ToVulkanAccelerationContainerLevel"
    THEN ToVulkanAccelerationContainerLevel(value)
    ELSE IF fn = "ToVulkanShaderBindingTableGroupType"
    THEN ToVulkanShaderBindingTableGroupType(value)
    ELSE IF fn = "ToD3D12ComparisonFunc" THEN ToD3D12ComparisonFunc(value)
    ELSE IF fn = "ToD3D12RayTracingAccelerationContainerLevel"
    THEN ToD3D12RayTracingAccelerationContainerLevel(value)
    ELSE IF fn = "ToD3D12RayTracingGeometryType"
    THEN ToD3D12RayTracingGeometryType(value)
    ELSE VulkanAccelerationContainerLevel(value)

NoUtilCall == [fn |-> "none"]

UtilInit == util = NoUtilCall

\* a call of ComputeTextureCopyExtent
CallComputeTextureCopyExtent ==
    /\ util = NoUtilCall
    /\ \E t \in TextureCopies :
        util' = [fn |-> "ComputeTextureCopyExtent", textureCopy |-> t,
                 result |-> ComputeTextureCopyExtent(t)]

\* a call of ComputeBufferImageCopyRegion
CallComputeBufferImageCopyRegion ==
    /\ util = NoUtilCall
    /\ \E b \in BufferCopies, t \in TextureCopies :
        util' = [fn |-> "ComputeBufferImageCopyRegion", bufferCopy |-> b,
                 textureCopy |-> t,
                 result |-> ComputeBufferImageCopyRegion(
                                b, t, ComputeTextureCopyExtent(t))]

\* a call of an enum translator
CallTranslator ==
    /\ util = NoUtilCall
    /\ \E fn \in Translators :
      \E value \in DeclaredValues(fn) \cup {Unrecognized} :
        util' = [fn |-> fn, value |-> value, result |-> Translate(fn, value)]

(***************************************************************************)
(* RayTracingAccelerationContainer of the Vulkan back end: Create and     *)
(* Initialize.                                                             *)
(*                                                                         *)
(* vkContainers  the containers created so far: mLevel and the size the   *)
(*               device reports for the build scratch memory              *)
(* vkCreate      the most recent Create: its descriptor, what it returned *)
(*               and the locals of Initialize when it returned             *)
(***************************************************************************)
VkTopLevel == << "VK_ACCELERATION_STRUCTURE_TYPE_NV", "Top" >>

\* descriptor->instances[ii]->GetGeometryContainer(): 0 is nullptr
InstanceLists(containers) ==
    UNION {[1 .. n -> 0 .. Len(containers)] : n \in 0 .. MaxInstances}

RECURSIVE PickUnique(_, _)
\* lines 266-278, for instances without nullptr: std::find and push_back
PickUnique(instances, picked) ==
    IF instances = << >> THEN picked
    ELSE PickUnique(Tail(instances),
                    IF \E k \in DOMAIN picked : picked[k] = Head(instances)
                    THEN picked ELSE Append(picked, Head(instances)))

RECURSIVE ScratchDimensions(_, _, _, _)
\* lines 280-291: the loop reads the three sizes of every container into
\* locals of its body and assigns none of the offsets
ScratchDimensions(containers, geometryContainers, ii, offsets) ==
    IF ii > Len(geometryContainers) THEN offsets
    ELSE ScratchDimensions(containers, geometryContainers, ii + 1, offsets)

NoVkCreate ==
    [level |-> "none", instances |-> << >>, result |-> "none",
     geometryContainers |-> << >>, scratchBufferBuildOffset |-> 0]

VkCreated(level, instances, result, geometryContainers, offset) ==
    [level |-> level, instances |-> instances, result |-> result,
     geometryContainers |-> geometryContainers,
     scratchBufferBuildOffset |-> offset]

\* RayTracingAccelerationContainer::Initialize, lines 204-295
Initialize(containers, level, instances, native) ==
    IF level \notin ContainerLevels
    THEN VkCreated(level, instances, "validation error", << >>, 0)
    ELSE IF native = "no function"
    THEN VkCreated(level, instances, "validation error", << >>, 0)
    ELSE IF native = "vk error"
    THEN VkCreated(level, instances, "device error", << >>, 0)
    ELSE IF VulkanAccelerationContainerLevel(level).native # VkTopLevel
    THEN VkCreated(level, instances, "success", << >>, 0)
    ELSE IF \E k \in DOMAIN instances : instances[k] = 0
    THEN VkCreated(level, instances, "validation error", << >>, 0)
    ELSE VkCreated(level, instances, "success", PickUnique(instances, << >>),
                   ScratchDimensions(containers, PickUnique(instances, << >>),
                                     1, 0))

ContainerInit ==
    /\ vkContainers = << >>
    /\ vkCreate = NoVkCreate

\* RayTracingAccelerationContainer::Create, lines 198-202
CreateContainer ==
    \E level \in ContainerLevels \cup {Unrecognized},
       instances \in InstanceLists(vkContainers),
       native \in {"ok", "no function", "vk error"}, buildSize \in 1 .. MaxBuildSize :
        /\ level \in ContainerLevels => Len(vkContainers) < NumVkContainers
        /\ level = "Bottom" => instances = << >>
        /\ vkCreate' = Initialize(vkContainers, level, instances, native)
        /\ vkContainers' =
              IF vkCreate'.result = "success"
              THEN Append(vkContainers, [level |-> level, buildSize |-> buildSize])
              ELSE vkContainers

(***************************************************************************)
(* VertexBufferTracker with its buffer views, and the vertex buffer views  *)
(* of the input assembler of the command list.                             *)
(*                                                                         *)
(* vertex holds                                                            *)
(*   status             none / recording / error                           *)
(*   mStartSlot, mEndSlot, mLastAppliedRenderPipeline, mD3D12BufferViews   *)
(*                      the members of the tracker                         *)
(*   lastPipeline       local of RecordRenderPass                          *)
(*   ia                 per slot, the view IASetVertexBuffers passed last  *)
(*   lastSet            per slot, the location and size of the most recent *)
(*                      SetVertexBuffer of the pass                        *)
(*   slotsSince, vertexApply   as in render                                *)
(*   drew               the command consumed last emitted a draw           *)
(***************************************************************************)
\* renderPipeline->GetVertexBuffer(slot).arrayStride
ArrayStride(pipeline, slot) == 4 * pipeline + slot

\* D3D12_VERTEX_BUFFER_VIEW = {}
NullView == [location |-> 0, size |-> 0, stride |-> 0]

\* the buffer, offset and size of a SetVertexBuffer command, as the location
\* buffer->GetVA() + offset and the size
VertexBindings == {[location |-> 16, size |-> 4], [location |-> 32, size |-> 8]}

\* the slots and the pipelines the commands of the pass name
VertexViewSlots == {0, 2, 4} \cap Slots
VertexPipelines == 1 .. NumVertexPipelines

\* lines 340-342: BufferLocation and SizeInBytes of the view of the slot
BufferViewSet(views, slot, binding) ==
    [views EXCEPT ![slot].location = binding.location,
                  ![slot].size = binding.size]

\* a change of pipeline that leaves the strides of the views as they are
StridesKept(views, changed, pipeline) == views

\* lines 362-367: StrideInBytes of the views of the slots the pipeline uses
StridesApplied(views, changed, pipeline) ==
    [slot \in Slots |->
        IF changed /\ slot \in GetVertexBufferSlotsUsed(pipeline)
        THEN [views[slot] EXCEPT !.stride = ArrayStride(pipeline, slot)]
        ELSE views[slot]]

\* line 377: IASetVertexBuffers(startSlot, count, &mD3D12BufferViews[startSlot])
IASetVertexBuffers(ia, views, calls) ==
    IF calls = << >> THEN ia
    ELSE [slot \in Slots |->
             IF calls[1].a <= slot /\ slot < calls[1].a + calls[1].b
             THEN views[slot] ELSE ia[slot]]

\* lines 1276 and 390-393: the tracker of a new pass
NewVertex ==
    [status |-> "none",
     mStartSlot |-> MaxVertexBuffers, mEndSlot |-> 0,
     mLastAppliedRenderPipeline |-> 0,
     mD3D12BufferViews |-> [slot \in Slots |-> NullView],
     lastPipeline |-> 0,
     ia |-> [slot \in Slots |-> NullView],
     lastSet |-> [slot \in Slots |-> [location |-> 0, size |-> 0]],
     slotsSince |-> {}, vertexApply |-> NoVertexApply, drew |-> FALSE]

VertexInit == vertex = NewVertex

\* RecordRenderPass, lines 1274-1277: new trackers; the input assembler of
\* the command list keeps what earlier passes have set
VertexBeginPass ==
    /\ vertex.status = "none"
    /\ vertex' = [NewVertex EXCEPT !.status = "recording", !.ia = vertex.ia]

\* lines 1428-1436
VertexEndPass ==
    /\ vertex.status = "recording"
    /\ vertex' = [vertex EXCEPT !.status = "none", !.drew = FALSE]

\* lines 1412-1419 and 336-344
VertexSetVertexBuffer ==
    /\ vertex.status = "recording"
    /\ \E slot \in VertexViewSlots, binding \in VertexBindings :
          vertex' = [OnSetVertexBuffer(vertex, slot) EXCEPT
                        !.mD3D12BufferViews = BufferViewSet(@, slot, binding),
                        !.lastSet[slot] = binding,
                        !.vertexApply = NoVertexApply,
                        !.drew = FALSE]

\* lines 1371-1386, as far as the vertex buffers are concerned
VertexSetRenderPipeline ==
    /\ vertex.status = "recording"
    /\ \E pipeline \in VertexPipelines :
          vertex' = [vertex EXCEPT !.lastPipeline = pipeline,
                                   !.vertexApply = NoVertexApply,
                                   !.drew = FALSE]

\* lines 346-383 and the draw call: R2 is the tracker after Apply, views the
\* buffer views after the strides of a changed pipeline are written
VertexDrawn(R2, views) ==
    [R2 EXCEPT !.mD3D12BufferViews = views,
               !.ia = IASetVertexBuffers(@, views, R2.vertexApply.calls),
               !.drew = TRUE]

\* lines 1281-1289: Apply of the binding tracker, which may fail, Apply of
\* the vertex buffer tracker and the draw
VertexDraw ==
    /\ vertex.status = "recording"
    /\ vertex.lastPipeline # 0
    /\ \E fails \in BOOLEAN :
          vertex' =
              IF fails
              THEN [vertex EXCEPT !.status = "error", !.drew = FALSE,
                                  !.vertexApply = NoVertexApply]
              ELSE VertexDrawn(
                       VertexBufferTrackerApply(vertex, vertex.lastPipeline),
                       StridesApplied(vertex.mD3D12BufferViews,
                                      vertex.mLastAppliedRenderPipeline
                                          # vertex.lastPipeline,
                                      vertex.lastPipeline))

(***************************************************************************)
(* The update handler of RecordCommands, lines 638-685, statement by       *)
(* statement, run by threads that record one command buffer each.  The     *)
(* containers are shared by the command buffers; the handler takes no lock *)
(* and the members it reads and writes are not atomic.                     *)
(*                                                                         *)
(* shared holds, per container, IsBuilt, IsUpdated, whether the build      *)
(* scratch memory is allocated and how often it was released; recorder     *)
(* holds, per thread, the statement it is at and the container of its      *)
(* update command.                                                         *)
(***************************************************************************)
Threads == 1 .. NumThreads
SharedContainers == 1 .. NumSharedContainers

\* a container that was created, built, or built and updated once
ContainerStates ==
    {[isBuilt |-> FALSE, isUpdated |-> FALSE, allocated |-> TRUE, releases |-> 0],
     [isBuilt |-> TRUE, isUpdated |-> FALSE, allocated |-> TRUE, releases |-> 0],
     [isBuilt |-> TRUE, isUpdated |-> TRUE, allocated |-> FALSE, releases |-> 1]}

ThreadsInit ==
    /\ shared \in [SharedContainers -> ContainerStates]
    /\ recorder = [t \in Threads |-> [pc |-> "idle", container |-> 0]]

ThreadsIdle ==
    /\ shared = [c \in SharedContainers |-> 
                    [isBuilt |-> FALSE, isUpdated |-> FALSE, allocated |-> TRUE,
                     releases |-> 0]]
    /\ recorder = [t \in Threads |-> [pc |-> "idle", container |-> 0]]

\* thread t is at statement pc and goes on to statement next
At(t, pc, next) ==
    /\ recorder[t].pc = pc
    /\ recorder' = [recorder EXCEPT ![t].pc = next]

\* lines 639-641: mCommands.NextCommand, container = update->container
UpdateRead ==
    \E t \in Threads, c \in SharedContainers :
        /\ recorder[t].pc = "idle"
        /\ recorder' = [recorder EXCEPT ![t] = [pc |-> "check", container |-> c]]
        /\ UNCHANGED shared

\* line 644: if (container->IsBuilt() && !container->IsUpdated())
UpdateCheck ==
    \E t \in Threads :
        /\ At(t, "check",
              IF ReleasesBuildScratch(shared[recorder[t].container].isBuilt,
                                      shared[recorder[t].container].isUpdated)
              THEN "destroy" ELSE "native")
        /\ UNCHANGED shared

\* line 645: container->DestroyScratchBuildMemory()
UpdateDestroy ==
    \E t \in Threads :
        /\ At(t, "destroy", "setUpdated")
        /\ shared' = [shared EXCEPT ![recorder[t].container].allocated = FALSE,
                                    ![recorder[t].container].releases = @ + 1]

\* line 646: container->SetUpdateState(true)
UpdateSetUpdated ==
    \E t \in Threads :
        /\ At(t, "setUpdated", "native")
        /\ shared' = [shared EXCEPT ![recorder[t].container].isUpdated = TRUE]

\* lines 649-668: the native call and the barrier on the command list of the
\* thread
UpdateNative ==
    \E t \in Threads :
        /\ At(t, "native", "setBuilt")
        /\ UNCHANGED shared

\* line 670: container->SetBuildState(true); lines 672-684: the first
\* command of the command buffer passes the checks
UpdateSetBuilt ==
    \E t \in Threads :
        /\ At(t, "setBuilt", "done")
        /\ shared' = [shared EXCEPT ![recorder[t].container].isBuilt = TRUE]

(***************************************************************************)
(* Specifications                                                          *)
(***************************************************************************)
InitBind ==
    /\ BindInit
    /\ AccelIdle
    /\ RenderIdle
    /\ StreamIdle
    /\ PassInit
    /\ UtilInit
    /\ ContainerInit
    /\ VertexInit
    /\ ThreadsIdle
NextBind ==
    \/ (SetPipeline
          /\ UNCHANGED << accelVars, renderVars, streamVars, passVars, utilVars, containerVars, vertexVars, threadVars >>)
    \/ (SetBindGroup
          /\ UNCHANGED << accelVars, renderVars, streamVars, passVars, utilVars, containerVars, vertexVars, threadVars >>)
    \/ (Draw
          /\ UNCHANGED << accelVars, renderVars, streamVars, passVars, utilVars, containerVars, vertexVars, threadVars >>)
SpecBind == InitBind /\ [][NextBind]_vars

InitAccel ==
    /\ AccelInit
    /\ BindIdle
    /\ RenderIdle
    /\ StreamIdle
    /\ PassInit
    /\ UtilInit
    /\ ContainerInit
    /\ VertexInit
    /\ ThreadsIdle
NextAccel ==
    \/ (BeginRecording
          /\ UNCHANGED << bindVars, renderVars, streamVars, passVars, utilVars, containerVars, vertexVars, threadVars >>)
    \/ (EndRecording
          /\ UNCHANGED << bindVars, renderVars, streamVars, passVars, utilVars, containerVars, vertexVars, threadVars >>)
    \/ (Build
          /\ UNCHANGED << bindVars, renderVars, streamVars, passVars, utilVars, containerVars, vertexVars, threadVars >>)
    \/ (Update
          /\ UNCHANGED << bindVars, renderVars, streamVars, passVars, utilVars, containerVars, vertexVars, threadVars >>)
    \/ (Copy
          /\ UNCHANGED << bindVars, renderVars, streamVars, passVars, utilVars, containerVars, vertexVars, threadVars >>)
    \/ (Pass
          /\ UNCHANGED << bindVars, renderVars, streamVars, passVars, utilVars, containerVars, vertexVars, threadVars >>)
SpecAccel == InitAccel /\ [][NextAccel]_vars

InitRender ==
    /\ RenderInit
    /\ BindIdle
    /\ AccelIdle
    /\ StreamIdle
    /\ PassInit
    /\ UtilInit
    /\ ContainerInit
    /\ VertexInit
    /\ ThreadsIdle
NextRender ==
    \/ (RenderBegin
          /\ UNCHANGED << bindVars, accelVars, streamVars, passVars, utilVars, containerVars, vertexVars, threadVars >>)
    \/ (RenderEnd
          /\ UNCHANGED << bindVars, accelVars, streamVars, passVars, utilVars, containerVars, vertexVars, threadVars >>)
    \/ (RenderSetDynamicState
          /\ UNCHANGED << bindVars, accelVars, streamVars, passVars, utilVars, containerVars, vertexVars, threadVars >>)
    \/ (RenderCommand
          /\ UNCHANGED << bindVars, accelVars, streamVars, passVars, utilVars, containerVars, vertexVars, threadVars >>)
    \/ (RenderExecuteBundles
          /\ UNCHANGED << bindVars, accelVars, streamVars, passVars, utilVars, containerVars, vertexVars, threadVars >>)
SpecRender == InitRender /\ [][NextRender]_vars

InitStream ==
    /\ StreamInit
    /\ BindIdle
    /\ AccelIdle
    /\ RenderIdle
    /\ PassInit
    /\ UtilInit
    /\ ContainerInit
    /\ VertexInit
    /\ ThreadsIdle
NextStream ==
    \/ (StreamBegin
          /\ UNCHANGED << bindVars, accelVars, renderVars, passVars, utilVars, containerVars, vertexVars, threadVars >>)
    \/ (StreamEnd
          /\ UNCHANGED << bindVars, accelVars, renderVars, passVars, utilVars, containerVars, vertexVars, threadVars >>)
    \/ (StreamEndInPass
          /\ UNCHANGED << bindVars, accelVars, renderVars, passVars, utilVars, containerVars, vertexVars, threadVars >>)
    \/ (TopLevelCommand
          /\ UNCHANGED << bindVars, accelVars, renderVars, passVars, utilVars, containerVars, vertexVars, threadVars >>)
    \/ (ComputePassCommand
          /\ UNCHANGED << bindVars, accelVars, renderVars, passVars, utilVars, containerVars, vertexVars, threadVars >>)
    \/ (RayTracingPassCommand
          /\ UNCHANGED << bindVars, accelVars, renderVars, passVars, utilVars, containerVars, vertexVars, threadVars >>)
    \/ (RenderPassCommand
          /\ UNCHANGED << bindVars, accelVars, renderVars, passVars, utilVars, containerVars, vertexVars, threadVars >>)
    \/ (RenderPassExecuteBundles
          /\ UNCHANGED << bindVars, accelVars, renderVars, passVars, utilVars, containerVars, vertexVars, threadVars >>)
SpecStream == InitStream /\ [][NextStream]_vars

\* a step of the loops of RecordCommands and of the pass functions: the
\* recording runs on one thread without suspension points, so a step that
\* is possible is taken
RecordingStep ==
    (StreamEnd \/ StreamEndInPass \/ TopLevelCommand \/ ComputePassCommand
        \/ RayTracingPassCommand \/ RenderPassCommand \/ RenderPassExecuteBundles)
        /\ UNCHANGED << bindVars, accelVars, renderVars, passVars, utilVars, containerVars, vertexVars, threadVars >>
FairSpecStream == SpecStream /\ WF_stream(RecordingStep)

InitPass ==
    /\ PassInit
    /\ BindIdle
    /\ AccelIdle
    /\ RenderIdle
    /\ StreamIdle
    /\ UtilInit
    /\ ContainerInit
    /\ VertexInit
    /\ ThreadsIdle
NextPass ==
    \/ (PassBegin
          /\ UNCHANGED << bindVars, accelVars, renderVars, streamVars, utilVars, containerVars, vertexVars, threadVars >>)
    \/ (PassSetRenderPipeline
          /\ UNCHANGED << bindVars, accelVars, renderVars, streamVars, utilVars, containerVars, vertexVars, threadVars >>)
    \/ (PassSetBindGroup
          /\ UNCHANGED << bindVars, accelVars, renderVars, streamVars, utilVars, containerVars, vertexVars, threadVars >>)
    \/ (PassDraw
          /\ UNCHANGED << bindVars, accelVars, renderVars, streamVars, utilVars, containerVars, vertexVars, threadVars >>)
    \/ (PassEnd
          /\ UNCHANGED << bindVars, accelVars, renderVars, streamVars, utilVars, containerVars, vertexVars, threadVars >>)
SpecPass == InitPass /\ [][NextPass]_vars

InitUtils ==
    /\ UtilInit
    /\ BindIdle
    /\ AccelIdle
    /\ RenderIdle
    /\ StreamIdle
    /\ PassInit
    /\ ContainerInit
    /\ VertexInit
    /\ ThreadsIdle
NextUtils ==
    \/ (CallComputeTextureCopyExtent
          /\ UNCHANGED << bindVars, accelVars, renderVars, streamVars, passVars, containerVars, vertexVars, threadVars >>)
    \/ (CallComputeBufferImageCopyRegion
          /\ UNCHANGED << bindVars, accelVars, renderVars, streamVars, passVars, containerVars, vertexVars, threadVars >>)
    \/ (CallTranslator
          /\ UNCHANGED << bindVars, accelVars, renderVars, streamVars, passVars, containerVars, vertexVars, threadVars >>)
SpecUtils == InitUtils /\ [][NextUtils]_vars

InitContainer ==
    /\ ContainerInit
    /\ BindIdle
    /\ AccelIdle
    /\ RenderIdle
    /\ StreamIdle
    /\ PassInit
    /\ UtilInit
    /\ VertexInit
    /\ ThreadsIdle
NextContainer ==
    \/ (CreateContainer
          /\ UNCHANGED << bindVars, accelVars, renderVars, streamVars, passVars, utilVars, vertexVars, threadVars >>)
SpecContainer == InitContainer /\ [][NextContainer]_vars

InitVertex ==
    /\ VertexInit
    /\ BindIdle
    /\ AccelIdle
    /\ RenderIdle
    /\ StreamIdle
    /\ PassInit
    /\ UtilInit
    /\ ContainerInit
    /\ ThreadsIdle
NextVertex ==
    \/ (VertexBeginPass
          /\ UNCHANGED << bindVars, accelVars, renderVars, streamVars, passVars, utilVars, containerVars, threadVars >>)
    \/ (VertexEndPass
          /\ UNCHANGED << bindVars, accelVars, renderVars, streamVars, passVars, utilVars, containerVars, threadVars >>)
    \/ (VertexSetVertexBuffer
          /\ UNCHANGED << bindVars, accelVars, renderVars, streamVars, passVars, utilVars, containerVars, threadVars >>)
    \/ (VertexSetRenderPipeline
          /\ UNCHANGED << bindVars, accelVars, renderVars, streamVars, passVars, utilVars, containerVars, threadVars >>)
    \/ (VertexDraw
          /\ UNCHANGED << bindVars, accelVars, renderVars, streamVars, passVars, utilVars, containerVars, threadVars >>)
SpecVertex == InitVertex /\ [][NextVertex]_vars

InitThreads ==
    /\ ThreadsInit
    /\ BindIdle
    /\ AccelIdle
    /\ RenderIdle
    /\ StreamIdle
    /\ PassInit
    /\ UtilInit
    /\ ContainerInit
    /\ VertexInit
NextThreads ==
    \/ (UpdateRead
          /\ UNCHANGED << bindVars, accelVars, renderVars, streamVars, passVars, utilVars, containerVars, vertexVars >>)
    \/ (UpdateCheck
          /\ UNCHANGED << bindVars, accelVars, renderVars, streamVars, passVars, utilVars, containerVars, vertexVars >>)
    \/ (UpdateDestroy
          /\ UNCHANGED << bindVars, accelVars, renderVars, streamVars, passVars, utilVars, containerVars, vertexVars >>)
    \/ (UpdateSetUpdated
          /\ UNCHANGED << bindVars, accelVars, renderVars, streamVars, passVars, utilVars, containerVars, vertexVars >>)
    \/ (UpdateNative
          /\ UNCHANGED << bindVars, accelVars, renderVars, streamVars, passVars, utilVars, containerVars, vertexVars >>)
    \/ (UpdateSetBuilt
          /\ UNCHANGED << bindVars, accelVars, renderVars, streamVars, passVars, utilVars, containerVars, vertexVars >>)
SpecThreads == InitThreads /\ [][NextThreads]_vars


(***************************************************************************)
(* Claims about BindGroupStateTracker (SpecBind)                           *)
(***************************************************************************)
BindingCallsEmitted == lastApply.calls # << >>

\* C1: when populating the views (samplers) of any dirty group failed in an
\* Apply, the view (sampler) heap has been switched before that Apply emits
\* a root or descriptor-table binding call.
C1_SwitchOnAnyFailure ==
    /\ (lastApply.viewsFailed /\ BindingCallsEmitted) => lastApply.switchedViews
    /\ (lastApply.samplersFailed /\ BindingCallsEmitted) => lastApply.switchedSamplers

\* a group of the current layout whose descriptor table on the command list
\* points into a heap other than the one bound on the command list
StaleTable(i) ==
    \/ /\ GetCbvUavSrvDescriptorCount(mBindGroups[i]) > 0
       /\ commandList.tables[i].views # commandList.heaps[1]
    \/ /\ GetSamplerDescriptorCount(mBindGroups[i]) > 0
       /\ commandList.tables[i].samplers # commandList.heaps[2]

\* C2: at every emitted draw, dispatch or trace-rays call, the descriptor
\* table last set for each bound group of the layout was allocated from the
\* heap that is bound on the command list.
C2_TablesInBoundHeap ==
    lastApply.drew => \A i \in mBindGroupLayoutsMask : ~StaleTable(i)

\* C3 as claimed: an Apply that went through a heap rotation emitted
\* exactly the binding calls of the same Apply without exhaustion.
C3_RotationMatchesBaseline ==
    (lastApply.rotated /\ lastApply.result = "ok")
        => Functional(lastApply.calls) = Functional(lastApply.baseline)

IsSubsequence(small, big) ==
    \E pick \in SUBSET (1 .. Len(big)) :
        /\ Cardinality(pick) = Len(small)
        /\ \A k \in 1 .. Len(small) :
              small[k] = big[IterateBitSet(pick)[k]]

\* C3 as amended: an Apply that went through a heap rotation emitted exactly
\* the binding calls the Apply emits without exhaustion when every group of
\* the pipeline layout is dirty; the calls of the non-exhausted baseline of
\* the same Apply are among them, in the same order.
C3_RotationMatchesAllDirty ==
    (lastApply.rotated /\ lastApply.result = "ok")
        => /\ Functional(lastApply.calls) = Functional(lastApply.allDirty)
           /\ IsSubsequence(Functional(lastApply.baseline),
                            Functional(lastApply.calls))

\* a rotation that re-emitted the calls of a group that was not dirty
C3_Witness ==
    /\ lastApply.rotated
    /\ lastApply.result = "ok"
    /\ Len(lastApply.calls) > Len(lastApply.baseline)
    /\ lastApply.baseline # << >>

Populated(i) ==
    LET g == mBindGroups[i] IN
    /\ GetCbvUavSrvDescriptorCount(g) > 0
          => allocators.alloc[g].views = allocators.view.serial
    /\ GetSamplerDescriptorCount(g) > 0
          => allocators.alloc[g].samplers = allocators.sampler.serial

\* C4: when a population failed because a heap was full and no heap switch
\* failed, Apply returns success without a failed assertion and every group
\* of the layout is populated in the current heaps.
C4_ExhaustionNeverSurfaced ==
    ((lastApply.viewsFailed \/ lastApply.samplersFailed)
        /\ lastApply.result # "error")
        => /\ lastApply.result = "ok"
           /\ ~lastApply.asserted
           /\ \A i \in mBindGroupLayoutsMask : Populated(i)

(***************************************************************************)
(* Claims about the acceleration container commands (SpecAccel)            *)
(***************************************************************************)
\* C5: an update command for a container no build command was ever recorded
\* for is rejected, and no native update is recorded for it.
C5_UpdateBeforeBuildFails ==
    (curCmd.kind = "Update" /\ ~curCmd.buildRecorded)
        => /\ ~curCmd.accepted
           /\ curCmd.native = NoCall

\* C6: in one recording scope builds and updates are never both accepted; an
\* update after an accepted build and a build after an accepted update end
\* the recording with an error.
C6_BuildUpdateSeparated ==
    /\ scope.buildLevels = {} \/ scope.updateLevels = {}
    /\ (curCmd.kind = "Update" /\ curCmd.buildLevels # {})
          => (~curCmd.accepted /\ recordStatus = "error")
    /\ (curCmd.kind = "Build" /\ curCmd.updateLevels # {})
          => (~curCmd.accepted /\ recordStatus = "error")

\* an update that followed an accepted build in its scope
C6_Witness ==
    /\ curCmd.kind = "Update"
    /\ curCmd.buildLevels # {}
    /\ recordStatus = "error"

\* C7: the builds accepted in one scope are of one level, and so are the
\* updates; a build (update) of another level than an earlier accepted build
\* (update) ends the recording with an error.
C7_OneLevelPerScope ==
    /\ Cardinality(scope.buildLevels) <= 1
    /\ Cardinality(scope.updateLevels) <= 1
    /\ (curCmd.kind = "Build"
          /\ curCmd.buildLevels \ {GetLevel(curCmd.container)} # {})
          => (~curCmd.accepted /\ recordStatus = "error")
    /\ (curCmd.kind = "Update"
          /\ curCmd.updateLevels \ {GetLevel(curCmd.container)} # {})
          => (~curCmd.accepted /\ recordStatus = "error")

\* a build of a level other than that of an earlier build of the scope
C7_Witness ==
    /\ curCmd.kind = "Build"
    /\ curCmd.updateLevels = {}
    /\ curCmd.buildLevels \ {GetLevel(curCmd.container)} # {}
    /\ recordStatus = "error"

\* C8: a build command that follows an accepted build of the same, already
\* built container is accepted too and records the same native build call and
\* the same barrier; a build is accepted whatever the state of its container
\* when the scope holds no update and no build of another level.
C8_RebuildIdentical ==
    /\ (curCmd.kind = "Build" /\ curCmd.followsBuild /\ curCmd.wasBuilt)
          => /\ curCmd.accepted
             /\ curCmd.native = curCmd.prevNative
             /\ curCmd.barrier = curCmd.prevBarrier
             /\ curCmd.native.source = 0
    /\ (curCmd.kind = "Build" /\ curCmd.updateLevels = {}
          /\ curCmd.buildLevels \subseteq {GetLevel(curCmd.container)})
          => curCmd.accepted

\* the second of two sequential builds of a built container
C8_Witness ==
    /\ curCmd.kind = "Build"
    /\ curCmd.followsRebuild
    /\ ~curCmd.wasUpdated
    /\ curCmd.wasBuilt
    /\ curCmd.accepted
    /\ curCmd.native.op = "Build"

\* C9: a container becomes Built only by a build command and Updated only by
\* an update command on a Built container, IsUpdated implies IsBuilt, and no
\* command clears either flag.
C9_Lifecycle ==
    /\ \A c \in Containers :
          /\ mIsUpdated[c] => mIsBuilt[c]
          /\ mIsBuilt[c] => history[c].buildRecorded
    /\ curCmd.container # 0 =>
          LET c == curCmd.container IN
          /\ (~curCmd.wasBuilt /\ mIsBuilt[c]) => curCmd.kind = "Build"
          /\ (~curCmd.wasUpdated /\ mIsUpdated[c])
                => (curCmd.kind = "Update" /\ curCmd.wasBuilt)
          /\ curCmd.wasBuilt => mIsBuilt[c]
          /\ curCmd.wasUpdated => mIsUpdated[c]

\* C10: an update command releases the build scratch memory exactly when it
\* is the first update recorded for its container after a build command, it
\* does so before its native update call, and the memory is released once.
C10_ReleaseAtFirstUpdate ==
    curCmd.kind = "Update" =>
        LET released == curCmd.events # << >> /\ Head(curCmd.events) = "Release"
            first == curCmd.buildRecorded /\ ~curCmd.updatedAfter
        IN /\ released <=> first
           /\ released => curCmd.wasAllocated
           /\ \A k \in 1 .. Len(curCmd.events) :
                 curCmd.events[k] = "Release" => k = 1

\* C11: no native build call is recorded whose scratch memory is the build
\* scratch memory of a container after that memory was released by the first
\* update that followed a build of the container.
C11_NoBuildOnReleasedScratch ==
    (curCmd.kind = "Build" /\ curCmd.updatedAfter
        /\ curCmd.native.scratch = BuildAddress(curCmd.container))
        => curCmd.wasAllocated

\* C12: the native call of a build or update command is directly followed,
\* within the command, by the barrier, and the barrier is on the result
\* buffer of the container of the command.
C12_BarrierFollowsNativeCall ==
    curCmd.kind \in {"Build", "Update"} =>
        LET n == Len(curCmd.events) IN
        /\ n >= 2
        /\ curCmd.events[n] = "Barrier"
        /\ curCmd.events[n - 1] \in {"NativeBuild", "NativeUpdate"}
        /\ \A k \in 1 .. (n - 2) :
              curCmd.events[k] \notin {"NativeBuild", "NativeUpdate", "Barrier"}
        /\ curCmd.native.dest = ResultAddress(curCmd.container)
        /\ curCmd.barrier = curCmd.native.dest

\* an update that released the build scratch memory, then recorded its
\* native call and the barrier
C12_Witness ==
    /\ curCmd.kind = "Update"
    /\ curCmd.events = << "Release", "NativeUpdate", "Barrier" >>
    /\ curCmd.barrier = ResultAddress(curCmd.container)



\* C14: an Apply of the vertex buffer tracker emits at most one
\* IASetVertexBuffers call; the call covers exactly [min, max + 1) of the
\* slots set since the last emitting Apply together with, when the pipeline
\* differs from the last applied one, the slots of the new pipeline; when
\* there is no such slot nothing is emitted.
C14_VertexRangeIsUnion ==
    render.vertexApply.applied =>
        /\ Len(render.vertexApply.calls) <= 1
        /\ (render.vertexApply.union = {}) = (render.vertexApply.calls = << >>)
        /\ render.vertexApply.calls # << >> =>
              /\ render.vertexApply.calls[1].call = "IASetVertexBuffers"
              /\ render.vertexApply.calls[1].a = SetMin(render.vertexApply.union)
              /\ render.vertexApply.calls[1].a + render.vertexApply.calls[1].b
                    = SetMax(render.vertexApply.union) + 1

\* slots 2 and 5 set, then a pipeline that uses slots 0-3: one call for 0-5
C14_Witness ==
    /\ renderCmd.kind = "Encode"
    /\ renderCmd.cmd.type = "Draw"
    /\ render.lastPipeline = 1
    /\ render.vertexApply.union = {0, 1, 2, 3, 5}
    /\ render.vertexApply.calls = << Call("IASetVertexBuffers", 0, 6) >>


\* C15 (as stated): an Apply of the index buffer tracker emits
\* IASetIndexBuffer only when the bound buffer, offset or size, or the index
\* format of the pipeline, differs from those of the last emission.
C15_EmitsOnlyOnChange ==
    (render.indexApply.applied /\ render.indexApply.emitted) =>
        (render.indexApply.viewChanged \/ render.indexApply.formatChanged)

\* C15 (amended): an Apply of the index buffer tracker emits IASetIndexBuffer
\* exactly when a SetIndexBuffer was recorded since the last emission,
\* whatever it binds, or the index format of the pipeline differs from the
\* format of the last emission.
C15_EmitsOnSetOrFormat ==
    render.indexApply.applied =>
        (render.indexApply.emitted
            = (render.indexApply.setSince \/ render.indexApply.formatChanged))

\* an identical re-bind under an unchanged format that caused a new call
C15_Witness ==
    /\ renderCmd.cmd.type \in IndexedTypes
    /\ render.indexApply.applied
    /\ render.indexApply.emitted
    /\ render.indexApply.setSince
    /\ ~render.indexApply.viewChanged
    /\ ~render.indexApply.formatChanged


\* C20: an ExecuteBundles command emits the native calls, leaves the trackers
\* in the state and returns the result that the commands of its bundles,
\* written inline in the pass one after the other, would: the trackers are
\* shared with the pass and a bundle named several times is replayed each time.
C20_BundlesAsInline ==
    [][renderCmd'.kind = "ExecuteBundles" =>
          LET inline == RunIterator(Encoding(render, bundleIter),
                                    InlineCommands(renderCmd'.bundles), 1,
                                    renderCmd'.failAt)
          IN  /\ renderCmd'.calls = inline.calls
              /\ render' = inline.R
              /\ renderCmd'.ok = inline.ok]_vars

\* the same bundle twice in one command, after a vertex buffer set in the
\* pass: the first replay applies the slot of the pass, each replay draws
C20_Witness ==
    /\ renderCmd.kind = "ExecuteBundles"
    /\ renderCmd.bundles = << 1, 1 >>
    /\ renderCmd.ok
    /\ Cardinality({k \in DOMAIN renderCmd.calls :
                        renderCmd.calls[k].call = "DrawInstanced"}) = 2
    /\ \E k \in DOMAIN renderCmd.calls :
          renderCmd.calls[k] = Call("IASetVertexBuffers", 0, 6)


\* C13: every native draw, indexed draw, indirect draw, dispatch, indirect
\* dispatch and dispatch-rays call of a command comes after an Apply of the
\* binding tracker in the same handler, and no SetBindGroup or SetPipeline
\* is left unapplied when the call is emitted.
C13_ApplyBeforeDrawClass ==
    \A k \in DOMAIN streamCmd.events :
        streamCmd.events[k].step \in DrawClassCalls =>
            /\ ~streamCmd.events[k].unapplied
            /\ \E j \in 1 .. (k - 1) : streamCmd.events[j].step = "Apply"

\* a trace-rays command after a binding change: Apply with its storage
\* transitions, then DispatchRays
C13_Witness ==
    /\ streamCmd.type = "TraceRays"
    /\ Len(streamCmd.events) = 3
    /\ streamCmd.events[1].step = "Apply"
    /\ streamCmd.events[1].unapplied
    /\ streamCmd.events[Len(streamCmd.events)].step = "DispatchRays"
    /\ ~streamCmd.events[Len(streamCmd.events)].unapplied


\* C16: while a render pass is recorded the binding tracker is in neither
\* compute nor ray-tracing context, so its bindings go out as graphics-root
\* calls, whatever passes were recorded before in the command buffer.
C16_RenderPassContext ==
    stream.pass = "render" =>
        /\ ~stream.mInCompute
        /\ ~stream.mInRayTracing
        /\ \A k \in DOMAIN streamCmd.events :
              streamCmd.events[k].step = "Apply" =>
                  streamCmd.events[k].kind = "Graphics"


\* C17: once a handler has failed, RecordCommands has returned the error,
\* and until another command buffer is recorded no command is consumed
\* and no native call is emitted.
C17_FirstFailureStops ==
    [][/\ stream'.failed =>
             (stream'.status = "error" /\ stream'.returned = "error")
       /\ stream.failed =>
             \/ (stream'.position = stream.position
                    /\ commandCalls' = commandCalls)
             \/ (stream'.position = 0 /\ commandCalls' = << >>
                    /\ ~stream'.failed)]_vars

\* a bundle whose draw fails in Apply after the calls of its SetRenderPipeline,
\* inside a render pass, with room left in the stream
C17_Witness ==
    /\ stream.failed
    /\ stream.status = "error"
    /\ stream.pass = "render"
    /\ streamCmd.type = "ExecuteBundles"
    /\ \E k \in DOMAIN streamCmd.events :
          streamCmd.events[k].step = "SetPipelineState"
    /\ \A k \in DOMAIN streamCmd.events :
          streamCmd.events[k].step \notin DrawClassCalls
    /\ stream.position < MaxCommands

\* C18: the commands are consumed one at a time in stream order, and the
\* native calls of a command are appended after those of all commands
\* consumed before it.
C18_CallsInStreamOrder ==
    [][\/ (stream'.position = 0 /\ commandCalls' = << >>)
       \/ (stream'.position = stream.position /\ commandCalls' = commandCalls)
       \/ /\ stream'.position = stream.position + 1
          /\ streamCmd'.index = stream'.position
          /\ commandCalls' =
                commandCalls \o [k \in 1 .. Len(NativeCalls(streamCmd'.events))
                                    |-> stream'.position]
          /\ \A i, j \in DOMAIN commandCalls' :
                i <= j => commandCalls'[i] <= commandCalls'[j]]_vars

\* four commands of which the first, the third and the fourth emitted calls
C18_Witness ==
    /\ stream.position = 4
    /\ streamCmd.type = "TraceRays"
    /\ Len(commandCalls) >= 3
    /\ {commandCalls[k] : k \in DOMAIN commandCalls} = {1, 3, 4}

\* C19: a Begin*Pass command emits at most one ResourceBarrier call for the
\* usages of its pass; the call is made for the usage table entry whose
\* number is the count of passes begun before, after the calls of every
\* earlier command and before any other call of the pass.
C19_OneBarrierBatchPerPass ==
    streamCmd.type \in BeginTypes =>
        /\ Cardinality({k \in DOMAIN streamCmd.events :
                            streamCmd.events[k].step = "ResourceBarrier"}) <= 1
        /\ \A k \in DOMAIN streamCmd.events :
              streamCmd.events[k].step = "ResourceBarrier" =>
                  /\ streamCmd.events[k].arg = stream.passesBegun - 1
                  /\ \A j \in 1 .. (k - 1) :
                        streamCmd.events[j].step
                            = "EnsureSubresourceContentInitialized"
        /\ \A i \in DOMAIN commandCalls : commandCalls[i] <= streamCmd.index
        /\ Len(commandCalls) >= Len(streamCmd.events)
        /\ \A i \in 1 .. Len(streamCmd.events) :
              commandCalls[Len(commandCalls) - Len(streamCmd.events) + i]
                  = streamCmd.index

\* the third pass of a command buffer, with barriers from entry 2
C19_Witness ==
    /\ streamCmd.type = "BeginRenderPass"
    /\ stream.passesBegun = 3
    /\ \E k \in DOMAIN streamCmd.events :
          /\ streamCmd.events[k].step = "ResourceBarrier"
          /\ streamCmd.events[k].arg = 2
    /\ \E i \in DOMAIN commandCalls : commandCalls[i] < streamCmd.index


\* C21: without the native render pass object the pass emits one clear for
\* exactly the color attachments and the depth / stencil aspects whose load
\* op is Clear, all of them before the body, and at EndRenderPass one resolve
\* for exactly the color attachments with a resolve target when the sample
\* count is above 1; with the native object it emits one BeginRenderPass,
\* one EndRenderPass and no clear or resolve call.
C21_EmulatedClearsAndResolves ==
    rp.status \in {"body", "ended"} =>
        LET Idx(name) == {k \in DOMAIN rp.calls : rp.calls[k].call = name}
            ended == rp.status = "ended"
            wantColor == {i \in DOMAIN rp.cmd.colors :
                              rp.cmd.colors[i].loadOp = "Clear"}
            wantFlags ==
                (IF rp.cmd.depthStencil \in {"depth", "depthStencil"}
                       /\ rp.cmd.depthLoadOp = "Clear"
                 THEN {"DEPTH"} ELSE {})
                    \cup (IF rp.cmd.depthStencil = "depthStencil"
                                /\ rp.cmd.stencilLoadOp = "Clear"
                          THEN {"STENCIL"} ELSE {})
            wantResolve == IF ended /\ rp.cmd.sampleCount > 1
                           THEN {i \in DOMAIN rp.cmd.colors :
                                     rp.cmd.colors[i].resolveTarget}
                           ELSE {}
        IN  IF rp.useRenderPass
            THEN /\ Cardinality(Idx("BeginRenderPass")) = 1
                 /\ Cardinality(Idx("EndRenderPass")) = (IF ended THEN 1 ELSE 0)
                 /\ Idx("ClearRenderTargetView") = {}
                 /\ Idx("ClearDepthStencilView") = {}
                 /\ Idx("ResolveSubresource") = {}
            ELSE /\ Idx("BeginRenderPass") = {}
                 /\ Idx("EndRenderPass") = {}
                 /\ Cardinality(Idx("ClearRenderTargetView")) = Cardinality(wantColor)
                 /\ {rp.calls[k].a + 1 : k \in Idx("ClearRenderTargetView")} = wantColor
                 /\ Cardinality(Idx("ClearDepthStencilView"))
                       = (IF wantFlags = {} THEN 0 ELSE 1)
                 /\ \A k \in Idx("ClearDepthStencilView") : rp.calls[k].a = wantFlags
                 /\ \A k \in Idx("ClearRenderTargetView") \cup Idx("ClearDepthStencilView") :
                       k <= rp.beginLen
                 /\ Cardinality(Idx("ResolveSubresource")) = Cardinality(wantResolve)
                 /\ {rp.calls[k].a + 1 : k \in Idx("ResolveSubresource")} = wantResolve
                 /\ \A k \in Idx("ResolveSubresource") : k > rp.bodyLen

\* an emulated multisampled pass: two color attachments of which the first
\* is cleared and the second resolved, depth cleared and stencil loaded, a
\* draw in the body
C21_Witness ==
    /\ rp.status = "ended"
    /\ ~rp.useRenderPass
    /\ rp.cmd.sampleCount = 4
    /\ rp.cmd.colors = << [loadOp |-> "Clear", resolveTarget |-> FALSE],
                          [loadOp |-> "Load", resolveTarget |-> TRUE] >>
    /\ rp.cmd.depthStencil = "depthStencil"
    /\ rp.cmd.depthLoadOp = "Clear"
    /\ rp.cmd.stencilLoadOp = "Load"
    /\ \E k \in DOMAIN rp.body : rp.body[k].type = "Draw"
    /\ \E k \in DOMAIN rp.calls : rp.calls[k].call = "ResolveSubresource"


C23_ClampsExactlyExceeding ==
    util.fn = "ComputeTextureCopyExtent" =>
        IF util.textureCopy.format.isCompressed
        THEN /\ ~util.result.fatal
             /\ util.result.width
                   = (IF util.textureCopy.x + util.textureCopy.width
                            > util.textureCopy.virtualWidth
                      THEN util.textureCopy.virtualWidth - util.textureCopy.x
                      ELSE util.textureCopy.width)
             /\ util.result.height
                   = (IF util.textureCopy.y + util.textureCopy.height
                            > util.textureCopy.virtualHeight
                      THEN util.textureCopy.virtualHeight - util.textureCopy.y
                      ELSE util.textureCopy.height)
             /\ util.result.depth = util.textureCopy.depth
        ELSE IF \/ util.textureCopy.x + util.textureCopy.width
                      > util.textureCopy.virtualWidth
                \/ util.textureCopy.y + util.textureCopy.height
                      > util.textureCopy.virtualHeight
        THEN util.result.fatal
        ELSE /\ ~util.result.fatal
             /\ util.result.width = util.textureCopy.width
             /\ util.result.height = util.textureCopy.height
             /\ util.result.depth = util.textureCopy.depth

\* a compressed copy at a non-zero origin whose width is clamped and whose
\* height fits
C23_Witness ==
    /\ util.fn = "ComputeTextureCopyExtent"
    /\ util.textureCopy.format.isCompressed
    /\ util.textureCopy.x = 4
    /\ util.textureCopy.width = 4
    /\ util.textureCopy.virtualWidth = 6
    /\ util.textureCopy.y + util.textureCopy.height <= util.textureCopy.virtualHeight
    /\ util.result.width = 2
    /\ util.result.height = util.textureCopy.height


\* C24: ComputeBufferImageCopyRegion returns bufferRowLength equal to
\* bytesPerRow / blockByteSize * blockWidth, and fails fatally when
\* bytesPerRow is no multiple of blockByteSize.
C24_RowLengthInTexels ==
    util.fn = "ComputeBufferImageCopyRegion" =>
        /\ util.bufferCopy.bytesPerRow % util.textureCopy.format.blockByteSize # 0
              => util.result.fatal
        /\ ~util.result.fatal
              => util.result.bufferRowLength
                    = (util.bufferCopy.bytesPerRow
                          \div util.textureCopy.format.blockByteSize)
                        * util.textureCopy.format.blockWidth
        /\ (/\ util.bufferCopy.bytesPerRow % util.textureCopy.format.blockByteSize = 0
            /\ util.textureCopy.format.isCompressed)
              => ~util.result.fatal

\* a region of a compressed texture: 256 bytes per row of 8 byte blocks that
\* are 4 texels wide
C24_Witness ==
    /\ util.fn = "ComputeBufferImageCopyRegion"
    /\ util.textureCopy.format.isCompressed
    /\ util.bufferCopy.bytesPerRow = 256
    /\ ~util.result.fatal
    /\ util.result.bufferRowLength = 128


\* C27: every enum translator returns a native value for each declared value
\* of its enum and fails fatally for any other value.
C27_TranslatorsTotalAndStrict ==
    util.fn \in Translators =>
        IF util.value \in DeclaredValues(util.fn)
        THEN ~util.result.fatal
        ELSE util.result.fatal


\* C25: the creation of a top-level container succeeds only if every one of
\* its instances references a container that is not null and is a
\* bottom-level container.
C25_InstancesReferenceBottomLevel ==
    (vkCreate.level = "Top" /\ vkCreate.result = "success") =>
        \A k \in DOMAIN vkCreate.instances :
            /\ vkCreate.instances[k] # 0
            /\ vkContainers[vkCreate.instances[k]].level = "Bottom"

\* C26: the initialization of a top-level container holds every referenced
\* container exactly once and takes as build scratch size the maximum or the
\* sum of the build scratch sizes of these containers.
C26_ScratchSizeOfDistinctSet ==
    (vkCreate.level = "Top" /\ vkCreate.result = "success") =>
        LET referenced == {vkCreate.instances[k] : k \in DOMAIN vkCreate.instances}
            sizes == {vkContainers[c].buildSize : c \in referenced}
            RECURSIVE Sum(_)
            Sum(S) == IF S = {} THEN 0
                      ELSE LET c == CHOOSE c \in S : TRUE
                           IN  vkContainers[c].buildSize + Sum(S \ {c})
        IN  /\ {vkCreate.geometryContainers[k] :
                    k \in DOMAIN vkCreate.geometryContainers} = referenced
            /\ Len(vkCreate.geometryContainers) = Cardinality(referenced)
            /\ \/ vkCreate.scratchBufferBuildOffset = Sum(referenced)
               \/ vkCreate.scratchBufferBuildOffset
                     = (IF sizes = {} THEN 0 ELSE SetMax(sizes))


\* C29: a build command records a native build with source 0, the result
\* memory of its container as destination, its build scratch memory as
\* scratch and no perform-update flag; an update command records a native
\* build with the perform-update flag, the result memory as source and as
\* destination, and the update scratch memory as scratch.
C29_BuildAndUpdateDescriptors ==
    /\ curCmd.kind = "Build"
          => /\ curCmd.native.op = "Build"
             /\ ~curCmd.native.update
             /\ curCmd.native.source = 0
             /\ curCmd.native.dest = ResultAddress(curCmd.container)
             /\ curCmd.native.scratch = BuildAddress(curCmd.container)
    /\ curCmd.kind = "Update"
          => /\ curCmd.native.op = "Build"
             /\ curCmd.native.update
             /\ curCmd.native.source = ResultAddress(curCmd.container)
             /\ curCmd.native.dest = ResultAddress(curCmd.container)
             /\ curCmd.native.scratch = UpdateAddress(curCmd.container)

\* an accepted update of a container that a build command was recorded for
C29_Witness ==
    /\ curCmd.kind = "Update"
    /\ curCmd.accepted
    /\ curCmd.buildRecorded
    /\ curCmd.native.update
    /\ curCmd.native.scratch = UpdateAddress(curCmd.container)


\* C30: in a compute or ray-tracing pass every Apply is followed, before the
\* dispatch or trace-rays call, by the transition of the storage bindings of
\* the bound groups; in a render pass no Apply is followed by such a
\* transition.
C30_StorageTransitionsByContext ==
    /\ stream.pass \in {"compute", "raytracing"} =>
          \A k \in DOMAIN streamCmd.events :
              streamCmd.events[k].step = "Apply" =>
                  /\ k < Len(streamCmd.events)
                  /\ streamCmd.events[k + 1].step = "TrackUsageAndTransitionNow"
                  /\ \A j \in 1 .. k :
                        streamCmd.events[j].step \notin DrawClassCalls
    /\ stream.pass = "render" =>
          \A k \in DOMAIN streamCmd.events :
              streamCmd.events[k].step # "TrackUsageAndTransitionNow"


\* C28: a recording that has started ends with success or with an error, and
\* as long as it goes on every step of it consumes a command of the stream.
C28_RecordCommandsTerminates ==
    /\ [][(stream.status = "recording" /\ stream'.status = "recording")
             => stream'.position > stream.position]_stream
    /\ (stream.status = "recording")
          ~> (stream.status \in {"done", "error"}
                 /\ stream.returned \in {"ok", "error"})

\* the stream ends inside a render pass that no EndRenderPass has closed, and
\* RecordCommands has returned success
C28_Witness ==
    /\ stream.status = "done"
    /\ stream.returned = "ok"
    /\ stream.position >= 2
    /\ stream.passesBegun = 1
    /\ stream.nextPassNumber = 1
    /\ \E k \in DOMAIN commandCalls : commandCalls[k] = stream.position


(***************************************************************************)
(* Claims about the binding calls of one Apply (SpecBind)                  *)
(***************************************************************************)
\* the calls of an Apply for the group at index i, without the heap
CallsOfIndex(calls, i) == Functional(SelectSeq(calls, LAMBDA c : c.index = i))

\* one root-descriptor call per dynamic binding of the group at index i, the
\* location being buffer base address + binding offset + dynamic offset
ExpectedRootCalls(i, g, dynamicOffset) ==
    IF GetDynamicBufferCount(g) = 0 THEN << >>
    ELSE << [kind |-> "RootDescriptor", index |-> i, group |-> g,
             location |-> GetVA(g) + BindingOffset(g) + dynamicOffset] >>

\* one descriptor-table call for the views and one for the samplers of the
\* group at index i, for the counts that are not zero
ExpectedTableCalls(i, g) ==
    (IF GetCbvUavSrvDescriptorCount(g) > 0
     THEN << [kind |-> "ViewTable", index |-> i, group |-> g, location |-> 0] >>
     ELSE << >>)
    \o (IF GetSamplerDescriptorCount(g) > 0
        THEN << [kind |-> "SamplerTable", index |-> i, group |-> g, location |-> 0] >>
        ELSE << >>)

\* what a successful Apply did for the group at index i, tables telling
\* whether the group is to be populated and its descriptor tables set
AppliedGroupAsExpected(i, tables) ==
    /\ CallsOfIndex(lastApply'.calls, i) =
          ExpectedRootCalls(i, mBindGroups[i], mDynamicOffsets[i])
              \o (IF tables THEN ExpectedTableCalls(i, mBindGroups[i]) ELSE << >>)
    /\ (i \in PopulatedInApply(Tracker, allocators, lastApply'.rotated)) = tables

\* C31 as claimed: a successful Apply emits, for a group that is only in
\* mDirtyBindGroupsObjectChangedOrIsDynamic, one root-descriptor call per
\* dynamic binding with the location base + binding offset + dynamic offset,
\* no descriptor-table call and no population; for a group in
\* mDirtyBindGroups also the view and the sampler table call whose count is
\* not zero.
C31_DynamicOnlyGroupGetsNoTables ==
    [][lastApply'.result = "ok"
          => \A i \in mDirtyBindGroupsObjectChangedOrIsDynamic :
                AppliedGroupAsExpected(i, i \in mDirtyBindGroups)]_vars

\* C31 as amended: the same, where a group counts as being in
\* mDirtyBindGroups also when the Apply switches a heap, which marks every
\* group of the pipeline layout in both sets before the calls are emitted.
C31_DynamicOnlyUnlessRotated ==
    [][lastApply'.result = "ok"
          => \A i \in mDirtyBindGroupsObjectChangedOrIsDynamic :
                AppliedGroupAsExpected(i, i \in mDirtyBindGroups \/ lastApply'.rotated)]_vars

\* an Apply without a heap switch that emitted the root-descriptor call of a
\* group with views and none of its descriptor tables, next to the tables of
\* another group
C31_Witness ==
    /\ lastApply.result = "ok"
    /\ ~lastApply.rotated
    /\ \E i \in mBindGroupLayoutsMask :
          /\ GetCbvUavSrvDescriptorCount(mBindGroups[i]) > 0
          /\ Len(CallsOfIndex(lastApply.calls, i)) = 1
          /\ CallsOfIndex(lastApply.calls, i)[1].kind = "RootDescriptor"
    /\ \E c \in 1 .. Len(lastApply.calls) : lastApply.calls[c].kind = "ViewTable"


\* C32: a successful Apply leaves both dirty sets empty, and an Apply that
\* follows a successful Apply with no SetBindGroup or SetPipeline in between
\* succeeds, populates no group, takes no descriptor from a heap and emits no
\* root-descriptor or descriptor-table call.
C32_SecondApplyDoesNothing ==
    [][/\ lastApply'.result = "ok"
          => /\ mDirtyBindGroups' = {}
             /\ mDirtyBindGroupsObjectChangedOrIsDynamic' = {}
       /\ (lastApply.result = "ok" /\ lastApply'.result # "none")
          => /\ lastApply'.result = "ok"
             /\ lastApply'.calls = << >>
             /\ ~lastApply'.rotated
             /\ allocators' = allocators
             /\ PopulatedInApply(Tracker, allocators, lastApply'.rotated) = {}]_vars

\* a successful Apply for a pipeline layout whose groups all have descriptors
\* that had nothing to do: the flags were cleared by an Apply before it
C32_Witness ==
    /\ lastApply.result = "ok"
    /\ lastApply.calls = << >>
    /\ mBindGroupLayoutsMask = Indices
    /\ \A i \in Indices : mBindGroups[i] # 0
    /\ mDirtyBindGroups = {}
    /\ mDirtyBindGroupsObjectChangedOrIsDynamic = {}


\* C33: an Apply in which AllocateAndSwitchShaderVisibleHeap fails returns
\* the error, emits no root-descriptor or descriptor-table call, sets no
\* descriptor heap, leaves both dirty sets as they were, and the draw,
\* dispatch or trace-rays call that asked for it is not emitted.
C33_FailedSwitchEmitsNothing ==
    [][lastApply'.result = "error"
          => /\ bindStatus' = "error"
             /\ lastApply'.calls = << >>
             /\ ~lastApply'.drew
             /\ commandList' = commandList
             /\ mDirtyBindGroups' = mDirtyBindGroups
             /\ mDirtyBindGroupsObjectChangedOrIsDynamic' =
                   mDirtyBindGroupsObjectChangedOrIsDynamic
             /\ mDirtyBindGroups' # {}]_vars

\* an Apply that switched the view heap and failed to switch the sampler heap
C33_Witness ==
    /\ lastApply.result = "error"
    /\ lastApply.switchedViews
    /\ lastApply.samplersFailed
    /\ mDirtyBindGroups # {}
    /\ ~lastApply.drew


(***************************************************************************)
(* Claims about the copy extent (SpecUtils)                                *)
(***************************************************************************)
\* a uint32_t, held as the 32-bit integer with the same bits, that is at most
\* the small value bound
UInt32AtMost(value, bound) == 0 <= value /\ value <= bound

\* the copy is valid against the physical size of the mip level
ValidAgainstPhysicalSize(t) ==
    /\ t.x + t.width <= PhysicalSize(t.virtualWidth, t.format.blockWidth)
    /\ t.y + t.height <= PhysicalSize(t.virtualHeight, t.format.blockHeight)

\* C34: for every copy that is valid against the physical size of the mip
\* level, a copy of zero width or height at an origin beyond the virtual size
\* included, ComputeTextureCopyExtent returns an extent that is at most the
\* requested extent in each dimension and with origin + extent at most the
\* virtual size in width and height, and the subtraction virtual size -
\* origin, where it is computed, does not wrap around.
C34_ExtentWithinVirtualSize ==
    (util.fn = "ComputeTextureCopyExtent"
        /\ ValidAgainstPhysicalSize(util.textureCopy))
        => /\ ~util.result.fatal
           /\ UInt32AtMost(util.result.width, util.textureCopy.width)
           /\ UInt32AtMost(util.result.height, util.textureCopy.height)
           /\ UInt32AtMost(util.result.width,
                           util.textureCopy.virtualWidth - util.textureCopy.x)
           /\ UInt32AtMost(util.result.height,
                           util.textureCopy.virtualHeight - util.textureCopy.y)
           /\ ExceedsVirtualSize(util.textureCopy.x, util.textureCopy.width,
                                 util.textureCopy.virtualWidth)
                 => util.textureCopy.x <= util.textureCopy.virtualWidth
           /\ ExceedsVirtualSize(util.textureCopy.y, util.textureCopy.height,
                                 util.textureCopy.virtualHeight)
                 => util.textureCopy.y <= util.textureCopy.virtualHeight


(***************************************************************************)
(* Claims about the vertex and index buffer views (SpecVertex, SpecRender) *)
(***************************************************************************)
\* C35: at every draw of a render pass, for every slot the current pipeline
\* uses and a SetVertexBuffer of the pass has named, the view passed last to
\* IASetVertexBuffers for the slot has the location and the size of the most
\* recent SetVertexBuffer for the slot and the stride the current pipeline
\* declares for the slot.
C35_ViewsAtDrawAreCurrent ==
    vertex.drew =>
        \A slot \in GetVertexBufferSlotsUsed(vertex.lastPipeline) :
            vertex.lastSet[slot].location # 0 =>
                /\ vertex.ia[slot].location = vertex.lastSet[slot].location
                /\ vertex.ia[slot].size = vertex.lastSet[slot].size
                /\ vertex.ia[slot].stride = ArrayStride(vertex.lastPipeline, slot)

\* a draw with pipeline 4 after pipeline 1 was applied: the views of slots 0
\* and 2, set before the first draw, carry the strides of pipeline 4, and no
\* SetVertexBuffer preceded the draw directly
C35_Witness ==
    /\ vertex.drew
    /\ vertex.lastPipeline = 4
    /\ vertex.vertexApply.union = {0, 1, 2, 3}
    /\ vertex.lastSet[0].location # 0
    /\ vertex.lastSet[2].location # 0
    /\ vertex.ia[0].stride = ArrayStride(4, 0)
    /\ vertex.ia[2].stride = ArrayStride(4, 2)


\* the command consumed last ended with an indexed draw
IndexedDrawEmitted ==
    /\ renderCmd.ok
    /\ \/ renderCmd.kind = "Encode" /\ renderCmd.cmd.type \in IndexedTypes
       \/ /\ renderCmd.kind = "ExecuteBundles"
          /\ renderCmd.calls[Len(renderCmd.calls)] = DrawCall("DrawIndexed")

\* C36: at every indexed draw that follows a SetIndexBuffer and a
\* SetRenderPipeline of the pass, the view passed last to IASetIndexBuffer
\* has the location and size of the most recent SetIndexBuffer and the index
\* format of the current pipeline.
C36_IndexViewAtDrawIsCurrent ==
    IndexedDrawEmitted =>
        /\ render.emittedLocation = render.indexLocation
        /\ render.emittedLocation # 0
        /\ render.emittedFormat = DXGIIndexFormat(render.lastPipeline)

\* an indexed draw after a pipeline with another index format was set and no
\* SetIndexBuffer since the last IASetIndexBuffer
C36_Witness ==
    /\ renderCmd.kind = "Encode"
    /\ renderCmd.cmd.type \in IndexedTypes
    /\ renderCmd.ok
    /\ render.indexApply.emitted
    /\ ~render.indexApply.setSince
    /\ render.indexApply.formatChanged
    /\ render.emittedFormat = DXGIIndexFormat(render.lastPipeline)


(***************************************************************************)
(* Claims about rejected commands and copies of containers (SpecAccel)     *)
(***************************************************************************)
\* C37: a build or update command that is rejected with a validation error
\* has emitted no native build call and no barrier, and has left the Built
\* and Updated state and the scratch memory of its container as they were.
C37_RejectedCommandHasNoEffect ==
    (curCmd.kind \in {"Build", "Update"} /\ ~curCmd.accepted)
        => /\ curCmd.events = << >>
           /\ mIsBuilt[curCmd.container] = curCmd.wasBuilt
           /\ mIsUpdated[curCmd.container] = curCmd.wasUpdated
           /\ mScratchMemory[curCmd.container].build.allocated = curCmd.wasAllocated


\* C38: a copy command records one native copy whose source is the result
\* memory of the source container and whose destination is the result memory
\* of the destination container, names no scratch memory, and leaves the
\* Built and Updated state and the scratch memory of every container, the
\* last build and update containers of the scope and the status of the
\* recording as they were.
C38_CopyOnlyCopies ==
    [][(curCmd'.kind = "Copy" /\ curCmd' # curCmd)
          => /\ curCmd'.events = << "NativeCopy" >>
             /\ curCmd'.native =
                   [op |-> "Copy", update |-> FALSE,
                    source |-> mScratchMemory[curCmd'.other].result.address,
                    dest |-> mScratchMemory[curCmd'.container].result.address,
                    scratch |-> 0]
             /\ curCmd'.accepted
             /\ UNCHANGED << mIsBuilt, mIsUpdated, mScratchMemory, recordStatus,
                             lastBuildContainer, lastUpdateContainer, scope >>]_vars

\* a copy from a built container to one that is not built, in a scope that
\* has accepted a build
C38_Witness ==
    /\ curCmd.kind = "Copy"
    /\ curCmd.other # curCmd.container
    /\ mIsBuilt[curCmd.other]
    /\ ~mIsBuilt[curCmd.container]
    /\ lastBuildContainer # 0
    /\ recordStatus = "recording"


(***************************************************************************)
(* Claims about command buffers recorded concurrently (SpecThreads)        *)
(***************************************************************************)
\* C39: when the threads record update commands concurrently, the build
\* scratch memory of every container is released at most once, and a
\* container whose update commands have all been handled is Updated if it
\* was Built; no interleaving of the test of line 644, the release and the
\* write of the Updated state releases the memory twice.
C39_ReleasedAtMostOnce ==
    \A c \in SharedContainers :
        /\ shared[c].releases <= 1
        /\ (/\ shared[c].releases >= 1
            /\ \A t \in Threads :
                  recorder[t].container = c => recorder[t].pc = "done")
              => shared[c].isUpdated


(***************************************************************************)
(* Claims about the two dirty sets (SpecBind)                              *)
(***************************************************************************)
\* the descriptor-table calls an Apply emitted for the group at index i
TableCallsOfIndex(calls, i) ==
    SelectSeq(CallsOfIndex(calls, i), LAMBDA c : c.kind # "RootDescriptor")

\* C40: mDirtyBindGroups is a subset of
\* mDirtyBindGroupsObjectChangedOrIsDynamic in every state of the tracker,
\* before and after every command and inside Apply once lines 146-147 have
\* marked the groups of the pipeline layout, so that an Apply that gets to
\* its binding calls sets the descriptor tables of every group it has
\* populated, the groups marked by a heap switch included.
C40_PopulatedGroupsAreBound ==
    [][/\ mDirtyBindGroups \subseteq mDirtyBindGroupsObjectChangedOrIsDynamic
       /\ mDirtyBindGroups' \subseteq mDirtyBindGroupsObjectChangedOrIsDynamic'
       /\ lastApply'.result # "none"
             => DirtyAfterSwitch(mDirtyBindGroups, mBindGroupLayoutsMask)
                   \subseteq DirtyAfterSwitch(mDirtyBindGroupsObjectChangedOrIsDynamic,
                                              mBindGroupLayoutsMask)
       /\ lastApply'.result = "ok"
             => \A i \in PopulatedInApply(Tracker, allocators, lastApply'.rotated) :
                   TableCallsOfIndex(lastApply'.calls, i) =
                       ExpectedTableCalls(i, mBindGroups[i])]_vars

\* an Apply that switched a heap and set the descriptor tables of every group
\* of a two-group pipeline layout, of which the Apply without exhaustion
\* would have set only a part
C40_Witness ==
    /\ lastApply.result = "ok"
    /\ lastApply.rotated
    /\ ~lastApply.asserted
    /\ mBindGroupLayoutsMask = Indices
    /\ \A i \in Indices : TableCallsOfIndex(lastApply.calls, i) # << >>
    /\ \E i \in Indices : TableCallsOfIndex(lastApply.baseline, i) = << >>

====
